---- MODULE Spec2Model ----
(***************************************************************************)
(* Movie-Analytics capstone: the enrichment engine                         *)
(* (Scripts/data_enrichment_v2.py) and the validation engine               *)
(* (Scripts/utils/validators.py) as state machines.                        *)
(*                                                                         *)
(* Python strings are sequences of one-character strings, so that strip,   *)
(* lower, split and slicing are computed and not assumed.  A Python value  *)
(* is a record [k, n, s, l]: k is its type ("none", "nan", "int", "str",   *)
(* "list"), n the integer, s the characters, l the list items.  Numbers    *)
(* are integers throughout.                                                *)
(***************************************************************************)
EXTENDS Integers, Sequences, FiniteSets, TLC

(***************************************************************************)
(* Bounds of the model.                                                    *)
(***************************************************************************)
MaxRows == 2
MaxInterval == 2
MaxRestarts == 1

\* F applied to the value of v, v evaluated once: a local assignment
With(v, F(_)) == CHOOSE r \in {F(x) : x \in {v}} : TRUE

(***************************************************************************)
(* Python values.                                                          *)
(***************************************************************************)
None == [k |-> "none", n |-> 0, s |-> <<>>, l |-> <<>>]
NaN == [k |-> "nan", n |-> 0, s |-> <<>>, l |-> <<>>]
Num(i) == [k |-> "int", n |-> i, s |-> <<>>, l |-> <<>>]
Str(chars) == [k |-> "str", n |-> 0, s |-> chars, l |-> <<>>]
\* a list; each item is [d |-> TRUE, name |-> chars] for a dict {'name': chars}
\* (name <<>>: the dict has no usable name) or [d |-> FALSE, name |-> chars]
\* for a plain string
List(items) == [k |-> "list", n |-> 0, s |-> <<>>, l |-> items]
Dict(name) == [d |-> TRUE, name |-> name]
Plain(chars) == [d |-> FALSE, name |-> chars]

\* bool(value)
Truthy(v) ==
    CASE v.k = "none" -> FALSE
      [] v.k = "nan" -> TRUE
      [] v.k = "int" -> v.n # 0
      [] v.k = "str" -> v.s # <<>>
      [] OTHER -> v.l # <<>>

\* pd.isna(value) for a scalar
isna(v) == v.k \in {"none", "nan"}

Digit == <<"0", "1", "2", "3", "4", "5", "6", "7", "8", "9">>
IsDigit(c) == \E i \in 1..10 : Digit[i] = c
DigitValue(c) == (CHOOSE i \in 1..10 : Digit[i] = c) - 1

RECURSIVE NatToStr(_)
NatToStr(i) ==
    IF i < 10 THEN <<Digit[i + 1]>> ELSE NatToStr(i \div 10) \o <<Digit[(i % 10) + 1]>>

\* str(value)
str(v) ==
    CASE v.k = "none" -> <<"N", "o", "n", "e">>
      [] v.k = "nan" -> <<"n", "a", "n">>
      [] v.k = "int" -> IF v.n < 0 THEN <<"-">> \o NatToStr(-v.n) ELSE NatToStr(v.n)
      [] v.k = "str" -> v.s
      [] OTHER -> <<"[", "]">>

IsSpace(c) == c \in {" ", "\t", "\n", "\r", "\f"}

RECURSIVE lstrip(_)
lstrip(s) == IF s # <<>> /\ IsSpace(Head(s)) THEN lstrip(Tail(s)) ELSE s

RECURSIVE rstrip(_)
rstrip(s) ==
    IF s # <<>> /\ IsSpace(s[Len(s)]) THEN rstrip(SubSeq(s, 1, Len(s) - 1)) ELSE s

\* str.strip()
strip(s) == rstrip(lstrip(s))

Upper == <<"A", "B", "C", "D", "E", "F", "G", "H", "I", "J", "K", "L", "M",
           "N", "O", "P", "Q", "R", "S", "T", "U", "V", "W", "X", "Y", "Z">>
Lower == <<"a", "b", "c", "d", "e", "f", "g", "h", "i", "j", "k", "l", "m",
           "n", "o", "p", "q", "r", "s", "t", "u", "v", "w", "x", "y", "z">>
LowerChar(c) ==
    IF \E i \in 1..26 : Upper[i] = c THEN Lower[CHOOSE i \in 1..26 : Upper[i] = c] ELSE c

\* str.lower()
lower(s) == [i \in 1..Len(s) |-> LowerChar(s[i])]

\* str.isdigit()
isdigit(s) == s # <<>> /\ \A i \in 1..Len(s) : IsDigit(s[i])

RECURSIVE DigitsToNat(_)
DigitsToNat(s) ==
    IF s = <<>> THEN 0 ELSE 10 * DigitsToNat(SubSeq(s, 1, Len(s) - 1)) + DigitValue(s[Len(s)])

\* float(str_value) for integer literals: [ok |-> parsed, n |-> value]; every
\* other string raises ValueError (ok = FALSE)
float(s) ==
    LET t == strip(s) IN
    IF isdigit(t) THEN [ok |-> TRUE, n |-> DigitsToNat(t)]
    ELSE IF t # <<>> /\ Head(t) \in {"-", "+"} /\ isdigit(Tail(t))
         THEN [ok |-> TRUE, n |-> IF Head(t) = "-" THEN -DigitsToNat(Tail(t)) ELSE DigitsToNat(Tail(t))]
         ELSE [ok |-> FALSE, n |-> 0]

\* s.replace(' ', '').replace('\t', '').replace('\n', '')
RECURSIVE RemoveSpaces(_)
RemoveSpaces(s) ==
    IF s = <<>> THEN <<>>
    ELSE IF IsSpace(Head(s)) THEN RemoveSpaces(Tail(s)) ELSE <<Head(s)>> \o RemoveSpaces(Tail(s))

\* sep.join(parts)
RECURSIVE join(_, _)
join(sep, parts) ==
    IF parts = <<>> THEN <<>>
    ELSE IF Len(parts) = 1 THEN parts[1]
    ELSE parts[1] \o sep \o join(sep, Tail(parts))

\* s.split(sep) for a one-character separator
RECURSIVE split(_, _)
split(s, sep) ==
    IF \A i \in 1..Len(s) : s[i] # sep THEN <<s>>
    ELSE LET p == CHOOSE i \in 1..Len(s) : s[i] = sep /\ \A j \in 1..(i - 1) : s[j] # sep
         IN <<SubSeq(s, 1, p - 1)>> \o split(SubSeq(s, p + 1, Len(s)), sep)

(***************************************************************************)
(* ModifiedDataEnrichment: columns.                                        *)
(***************************************************************************)
target_columns ==
    <<"title", "release_date", "budget", "revenue", "vote_average", "vote_count",
      "popularity", "rating", "runtime", "genres", "keywords", "production_companies",
      "production_countries", "spoken_languages", "director", "writers", "cast_top_5">>

Columns == {"id"} \cup {target_columns[i] : i \in 1..Len(target_columns)}

NumericFields == {"budget", "revenue", "vote_count", "popularity", "runtime"}
RatingFields == {"vote_average", "rating"}
ListFields == {"genres", "keywords", "production_companies", "production_countries",
               "spoken_languages"}
TextFields == {"title", "director", "writers", "cast_top_5"}

MissingIndicators ==
    {<<>>, <<"n", "a", "n">>, <<"N", "a", "N">>, <<"N", "U", "L", "L">>,
     <<"n", "u", "l", "l">>, <<"N", "o", "n", "e">>, <<"[", "]">>, <<"[", " ", "]">>}

EmptyIndicators ==
    {<<"[", "]">>, <<"[", " ", "]">>, <<"[", ",", "]">>, <<"\"", "\"">>, <<"'", "'">>,
     <<"{", "}">>, <<"f", "a", "l", "s", "e">>, <<"F", "A", "L", "S", "E">>}

NotMeaningful ==
    {<<>>, <<"0">>, <<"f", "a", "l", "s", "e">>, <<"F", "A", "L", "S", "E">>,
     <<"u", "n", "k", "n", "o", "w", "n">>, <<"U", "n", "k", "n", "o", "w", "n">>,
     <<"N", "/", "A">>, <<"n", "/", "a">>}

\* is_field_missing(value, field_name)
is_field_missing(value, field_name) ==
    LET str_value == strip(str(value)) IN
    IF isna(value) THEN TRUE
    ELSE IF str_value \in MissingIndicators THEN TRUE
    ELSE IF field_name \in NumericFields \cup RatingFields
         THEN \* float() reads "nan", "inf" and "infinity" in any letter case:
              \* neither == 0 nor < 0
              IF lower(str_value) \in {<<"n", "a", "n">>, <<"i", "n", "f">>,
                                       <<"i", "n", "f", "i", "n", "i", "t", "y">>}
              THEN FALSE
              ELSE LET f == float(str_value) IN IF f.ok THEN f.n = 0 \/ f.n < 0 ELSE TRUE
    ELSE IF field_name \in ListFields
         THEN lower(RemoveSpaces(str_value)) \in {lower(ind) : ind \in EmptyIndicators}
    ELSE IF field_name \in TextFields
         THEN str_value \in NotMeaningful
    ELSE IF field_name = "adult"
         THEN lower(str_value) \in {<<>>, <<"n", "a", "n">>, <<"n", "o", "n", "e">>,
                                    <<"n", "u", "l", "l">>}
    ELSE FALSE

\* extract_release_year(release_date): the year as Num(y), or None
extract_release_year(release_date) ==
    IF ~Truthy(release_date) \/ strip(str(release_date)) = <<>>
       \/ str(release_date) = <<"n", "a", "n">>
    THEN None
    ELSE LET date_str == strip(str(release_date)) IN
         IF \E i \in 1..Len(date_str) : date_str[i] = "/"
         THEN LET parts == split(date_str, "/") IN
              IF Len(parts) = 3 /\ Len(parts[3]) = 4 /\ isdigit(parts[3])
              THEN Num(DigitsToNat(parts[3])) ELSE None
         ELSE IF \E i \in 1..Len(date_str) : date_str[i] = "-"
         THEN LET year == SubSeq(date_str, 1, IF Len(date_str) < 4 THEN Len(date_str) ELSE 4) IN
              IF Len(year) = 4 /\ isdigit(year) THEN Num(DigitsToNat(year)) ELSE None
         ELSE IF Len(date_str) = 4 /\ isdigit(date_str)
         THEN Num(DigitsToNat(date_str)) ELSE None

(***************************************************************************)
(* The metadata client (self.tmdb) as the engine sees it.  A call of       *)
(* fetch_movie_details(id, append_to_response="credits") either raises or  *)
(* returns a dict; a dict is [k |-> "dict", f, has_credits, crew]: f maps  *)
(* each key to its value or to Absent, crew lists the credits' crew        *)
(* members.  A call of search_movie either raises or returns None, a dict  *)
(* without 'results', or a dict whose 'results' are the ids found.         *)
(***************************************************************************)
Absent == [k |-> "absent", n |-> 0, s |-> <<>>, l |-> <<>>]

MetaKeys == NumericFields \cup ListFields \cup {"vote_average", "title", "release_date"}

Raise == [k |-> "raise", f |-> [key \in MetaKeys |-> Absent], has_credits |-> FALSE,
          crew |-> <<>>]
EmptyDict == [k |-> "dict", f |-> [key \in MetaKeys |-> Absent], has_credits |-> FALSE,
              crew |-> <<>>]

\* bool(tmdb_data) for whatever the fetch left in tmdb_data (None when it raised)
HasData(o) == o.k = "dict" /\ (o.has_credits \/ \E key \in MetaKeys : o.f[key].k # "absent")

\* the outcome of one field of the merge loop
NoWrite == [raised |-> FALSE, write |-> FALSE, value |-> None]
Write(v) == [raised |-> FALSE, write |-> TRUE, value |-> v]
Raised == [raised |-> TRUE, write |-> FALSE, value |-> None]

Director == <<"D", "i", "r", "e", "c", "t", "o", "r">>

\* the director loop: the name of the first crew member whose job is 'Director'
RECURSIVE first_director(_)
first_director(crew) ==
    IF crew = <<>> THEN <<>>
    ELSE IF Head(crew).job = Director THEN Head(crew).name
    ELSE first_director(Tail(crew))

\* [item.get('name', str(item)) for item in tmdb_value if item.get('name')]
RECURSIVE names_of(_)
names_of(items) ==
    IF items = <<>> THEN <<>>
    ELSE IF Head(items).name # <<>> THEN <<Head(items).name>> \o names_of(Tail(items))
    ELSE names_of(Tail(items))

CommaSpace == <<",", " ">>

\* the body of `for field in missing_fields` for one field
fill_field(field, tmdb_data) ==
    IF field \in {"budget", "revenue", "runtime", "vote_count", "popularity"} THEN
        LET tmdb_value == tmdb_data.f[field] IN
        IF tmdb_value.k \in {"absent", "none"} THEN NoWrite
        ELSE IF field \in {"budget", "revenue"}
             THEN IF Truthy(tmdb_value) /\ tmdb_value # Num(0) THEN Write(tmdb_value)
                  ELSE NoWrite
             ELSE Write(tmdb_value)
    ELSE IF field \in {"vote_average", "rating"} THEN
        LET tmdb_value == tmdb_data.f["vote_average"] IN
        IF tmdb_value.k \in {"absent", "none"} THEN NoWrite
        ELSE IF ~Truthy(tmdb_value) THEN NoWrite
        ELSE IF tmdb_value.k # "int" THEN Raised    \* '>' between str/list and int
        ELSE IF tmdb_value.n > 0 THEN Write(tmdb_value) ELSE NoWrite
    ELSE IF field \in {"title", "release_date"} THEN
        LET raw == tmdb_data.f[field] IN
        IF raw.k \in {"absent", "none"} THEN NoWrite
        ELSE LET tmdb_value == strip(str(raw)) IN
             IF tmdb_value # <<>>
                /\ tmdb_value \notin {<<>>, <<"n", "u", "l", "l">>, <<"N", "o", "n", "e">>}
             THEN Write(Str(tmdb_value)) ELSE NoWrite
    ELSE IF field = "director" THEN
        LET director_name ==
                IF tmdb_data.has_credits THEN first_director(tmdb_data.crew) ELSE <<>>
        IN IF director_name # <<>> THEN Write(Str(director_name)) ELSE NoWrite
    ELSE IF field \in ListFields THEN
        LET tmdb_value == tmdb_data.f[field] IN
        IF tmdb_value.k = "absent" \/ ~Truthy(tmdb_value) THEN NoWrite
        ELSE IF tmdb_value.k = "list" THEN
            IF Head(tmdb_value.l).d THEN
                \* item.get on a str item raises AttributeError
                IF \E i \in 1..Len(tmdb_value.l) : ~tmdb_value.l[i].d THEN Raised
                ELSE LET names == names_of(tmdb_value.l) IN
                     IF names # <<>> THEN Write(Str(join(CommaSpace, names))) ELSE NoWrite
            ELSE Write(Str(join(CommaSpace,
                                [i \in 1..Len(tmdb_value.l) |-> tmdb_value.l[i].name])))
        ELSE IF tmdb_value.k = "str" /\ strip(tmdb_value.s) # <<>> THEN Write(tmdb_value)
        ELSE NoWrite
    ELSE NoWrite

\* the loop `for field in missing_fields`: [raised, row, enriched, written],
\* written being the fields assigned
RECURSIVE fill_loop(_, _, _, _, _)
fill_loop(missing_fields, tmdb_data, row, enriched, written) ==
    IF missing_fields = <<>>
    THEN [raised |-> FALSE, row |-> row, enriched |-> enriched, written |-> written]
    ELSE With(Head(missing_fields), LAMBDA field :
         With(fill_field(field, tmdb_data), LAMBDA r :
            IF r.raised
            THEN [raised |-> TRUE, row |-> row, enriched |-> enriched, written |-> written]
            ELSE IF r.write
            THEN fill_loop(Tail(missing_fields), tmdb_data,
                           [row EXCEPT ![field] = r.value], TRUE, written \cup {field})
            ELSE fill_loop(Tail(missing_fields), tmdb_data, row, enriched, written)))

\* a merge that reports the record enriched as soon as metadata was fetched
fill_missing_on_fetch(missing_fields, tmdb_data, row) ==
    [fill_loop(missing_fields, tmdb_data, row, FALSE, {}) EXCEPT !.enriched = TRUE]

\* `if tmdb_data:` branch: enriched = False, the loop, return row, enriched
fill_missing(missing_fields, tmdb_data, row) ==
    fill_loop(missing_fields, tmdb_data, row, FALSE, {})

(***************************************************************************)
(* find_movie_by_search and enrich_movie_row.  tmdb is the client:         *)
(* tmdb.fetch[id] is the outcome of fetch_movie_details(id, ...) and       *)
(* tmdb.search[y] the outcome of search_movie(title, year), y telling      *)
(* whether a year was passed.  calls is the log of the client calls made.  *)
(***************************************************************************)
FetchCall(id) == [op |-> "fetch", id |-> id, year |-> FALSE]
SearchCall(y) == [op |-> "search", id |-> 0, year |-> y]

\* find_movie_by_search(title, release_year): [id |-> Num(id) or None, calls]
find_movie_by_search(tmdb, title, release_year) ==
    With(IF Truthy(title) THEN strip(str(title)) ELSE <<>>, LAMBDA search_title :
    IF search_title = <<>> \/ lower(search_title) = <<"n", "a", "n">>
    THEN [id |-> None, calls |-> <<>>]
    ELSE LET with_year == release_year.k # "none"
             first == tmdb.search[with_year]
             retry == first.k \in {"none", "nokey"} /\ Truthy(release_year)
             second == IF retry THEN tmdb.search[FALSE] ELSE first
             calls == IF first.k # "raise" /\ retry
                      THEN <<SearchCall(with_year), SearchCall(FALSE)>>
                      ELSE <<SearchCall(with_year)>>
         IN IF first.k = "raise" \/ second.k = "raise"
            THEN [id |-> None, calls |-> calls]
            ELSE IF second.k = "results" /\ second.ids # <<>>
            THEN [id |-> Num(second.ids[1]), calls |-> calls]
            ELSE [id |-> None, calls |-> calls])

\* what enrich_movie_row returns when it does not raise
Returned(row, was_enriched, api_calls, calls, via_search, written) ==
    [raised |-> FALSE, row |-> row, was_enriched |-> was_enriched, api_calls |-> api_calls,
     calls |-> calls, via_search |-> via_search, written |-> written]

\* the columns of target_columns found missing, in order
missing_fields_of(row) ==
    SelectSeq(target_columns,
              LAMBDA field : field # "id" /\ is_field_missing(row[field], field))

\* an id update that overwrites whatever id the record had
update_id_always(row, search_movie_id) == [row EXCEPT !["id"] = search_movie_id]

\* `if self.is_field_missing(row.get('id'), 'id'): row['id'] = search_movie_id`
update_id(row, search_movie_id) ==
    IF is_field_missing(row["id"], "id") THEN [row EXCEPT !["id"] = search_movie_id]
    ELSE row

\* "Try to fetch data using movie ID first": [data, calls, api_calls], data
\* being Raise when tmdb_data stayed None
fetch_by_id(tmdb, row) ==
    With(row["id"], LAMBDA movie_id :
    IF Truthy(movie_id) /\ str(movie_id) # <<"n", "a", "n">> /\ strip(str(movie_id)) # <<>>
    THEN With(tmdb.fetch[movie_id.n], LAMBDA data :
            [data |-> data, calls |-> <<FetchCall(movie_id.n)>>,
             api_calls |-> IF data.k # "raise" THEN 1 ELSE 0])
    ELSE [data |-> Raise, calls |-> <<>>, api_calls |-> 0])

\* "If ID fetch failed and we have title, try search", a being what the fetch
\* by id left: [tmdb_data, row, calls, api_calls, via_search]
fetch_by_search(tmdb, row, a) ==
    With(row["title"], LAMBDA title :
    IF ~HasData(a.data) /\ Truthy(title) /\ strip(str(title)) # <<>>
    THEN With(find_movie_by_search(tmdb, title, extract_release_year(row["release_date"])),
              LAMBDA found :
         IF Truthy(found.id)
         THEN With(tmdb.fetch[found.id.n], LAMBDA data :
                 IF data.k = "raise"
                 THEN [tmdb_data |-> a.data, row |-> row,
                       calls |-> a.calls \o found.calls \o <<FetchCall(found.id.n)>>,
                       api_calls |-> a.api_calls, via_search |-> FALSE]
                 ELSE [tmdb_data |-> data, row |-> update_id(row, found.id),
                       calls |-> a.calls \o found.calls \o <<FetchCall(found.id.n)>>,
                       api_calls |-> a.api_calls + 1, via_search |-> TRUE])
         ELSE [tmdb_data |-> a.data, row |-> row, calls |-> a.calls \o found.calls,
               api_calls |-> a.api_calls, via_search |-> FALSE])
    ELSE [tmdb_data |-> a.data, row |-> row, calls |-> a.calls,
          api_calls |-> a.api_calls, via_search |-> FALSE])

\* "Fill missing data from TMDb response", b being what the fetches left
fill_from(row, missing_fields, b) ==
    IF HasData(b.tmdb_data)
    THEN With(fill_missing(missing_fields, b.tmdb_data, b.row), LAMBDA m :
         IF m.raised
         THEN [raised |-> TRUE, row |-> row, was_enriched |-> FALSE,
               api_calls |-> b.api_calls, calls |-> b.calls, via_search |-> b.via_search,
               written |-> m.written]
         ELSE Returned(m.row, m.enriched, b.api_calls, b.calls, b.via_search, m.written))
    ELSE Returned(b.row, FALSE, b.api_calls, b.calls, b.via_search, {})

\* enrich_movie_row from "Try to fetch data using movie ID first" on
fetch_and_fill(tmdb, row, missing_fields) ==
    With(fetch_by_id(tmdb, row), LAMBDA a :
    With(fetch_by_search(tmdb, row, a), LAMBDA b :
    fill_from(row, missing_fields, b)))

\* an enrich_movie_row without the early return for a complete record
enrich_movie_row_no_skip(tmdb, row) ==
    With(missing_fields_of(row), LAMBDA missing_fields :
    fetch_and_fill(tmdb, row, missing_fields))

\* enrich_movie_row(row): the row returned, was_enriched, the number added to
\* total_api_calls, the client calls made, whether tmdb_data came from the
\* title search, and the fields written; or raised
enrich_movie_row(tmdb, row) ==
    With(missing_fields_of(row), LAMBDA missing_fields :
    IF missing_fields = <<>> THEN Returned(row, FALSE, 0, <<>>, FALSE, {})
    ELSE fetch_and_fill(tmdb, row, missing_fields))

(***************************************************************************)
(* State of one enrichment job: the process (a ModifiedDataEnrichment and  *)
(* the locals of enrich_dataset) and the two files it keeps on disk.       *)
(***************************************************************************)
VARIABLES
    df,                  \* the input dataset, a sequence of rows
    tmdb,                \* the metadata client's behaviour
    checkpoint_interval, \* self.checkpoint_interval
    pc,                  \* "new": constructed; "loop": in enrich_dataset's loop;
                         \* "returned": enrich_dataset has returned
    enrichment_stats,    \* self.enrichment_stats
    enriched_rows,       \* the accumulator of output rows
    start_index,         \* where the loop started
    index,               \* the next row of the loop
    checkpoint_file,     \* enrichment_checkpoint.pkl
    progress_file,       \* enrichment_progress.json
    restarts,            \* how often the process was killed and started again
    interrupted_at,      \* rows processed when the process was killed, -1 if never
    loaded,              \* the checkpoint file as load_checkpoint found it
    last,                \* what the last iteration (or call) did
    output_file          \* TMDB_all_movies_enriched.csv

enrich_vars ==
    <<df, tmdb, checkpoint_interval, pc, enrichment_stats, enriched_rows, start_index,
      index, checkpoint_file, progress_file, restarts, interrupted_at, loaded, last,
      output_file>>

\* __init__: self.enrichment_stats (start_time: whether it is set)
InitialStats ==
    [processed |-> 0, enriched |-> 0, failed |-> 0, total_api_calls |-> 0,
     start_time |-> FALSE, last_checkpoint |-> 0]

\* readable: pickle.load can decode the file
NoCheckpoint ==
    [exists |-> FALSE, readable |-> TRUE, enriched_rows |-> <<>>, current_index |-> 0,
     stats |-> InitialStats]

NoOutput == [exists |-> FALSE, rows |-> <<>>]

NoProgress ==
    [exists |-> FALSE, current_index |-> 0, total_processed |-> 0, total_enriched |-> 0,
     total_failed |-> 0, api_calls |-> 0, completion_percentage |-> 0]

\* save_checkpoint(enriched_rows, current_index): the two files it writes
save_checkpoint(stats, rows, current_index) ==
    [checkpoint |-> [exists |-> TRUE, readable |-> TRUE, enriched_rows |-> rows,
                     current_index |-> current_index, stats |-> stats],
     progress |-> [exists |-> TRUE, current_index |-> current_index,
                   total_processed |-> stats.processed, total_enriched |-> stats.enriched,
                   total_failed |-> stats.failed, api_calls |-> stats.total_api_calls,
                   completion_percentage |-> 0]]

\* load_checkpoint(): [found: rows were returned (not None), enriched_rows,
\* current_index, stats: self.enrichment_stats afterwards].  The stats are
\* taken over before the log line reads stats['api_calls']; a KeyError there
\* is caught and (None, 0) returned, and so is the exception of pickle.load
\* on a file it cannot decode.
load_checkpoint(file, stats) ==
    IF ~file.exists
    THEN [found |-> FALSE, enriched_rows |-> <<>>, current_index |-> 0, stats |-> stats]
    ELSE IF ~file.readable
    THEN [found |-> FALSE, enriched_rows |-> <<>>, current_index |-> 0, stats |-> stats]
    ELSE IF "api_calls" \in DOMAIN file.stats
    THEN [found |-> TRUE, enriched_rows |-> file.enriched_rows,
          current_index |-> file.current_index, stats |-> file.stats]
    ELSE [found |-> FALSE, enriched_rows |-> <<>>, current_index |-> 0, stats |-> file.stats]

NoCall ==
    [raised |-> FALSE, row |-> [c \in Columns |-> None], was_enriched |-> FALSE,
     api_calls |-> 0, calls |-> <<>>, via_search |-> FALSE, written |-> {}]

NoLast ==
    [index |-> 0, input |-> [c \in Columns |-> None], result |-> NoCall,
     checkpointed |-> FALSE, handled |-> FALSE]

(***************************************************************************)
(* enrich_dataset.                                                         *)
(***************************************************************************)
\* round(((index + 1) / len(df)) * 100, 2), in hundredths of a percent
completion_pct(done, total) == (done * 20000 + total) \div (2 * total)

\* "Update progress file with completion percentage", lines 498-507
update_progress(prog, done, total) ==
    IF prog.exists THEN [prog EXCEPT !.completion_percentage = completion_pct(done, total)]
    ELSE prog

\* the files after save_checkpoint has written them over the files before
written_over(before, saved) == saved

\* main: filter_output_columns(enriched_df)
filter_output_columns(rows) == [i \in DOMAIN rows |-> [c \in Columns |-> rows[i][c]]]

\* a cleanup that leaves the progress file
cleanup_checkpoint_only(ckpt, prog) == [checkpoint |-> NoCheckpoint, progress |-> prog]

\* cleanup_checkpoint_files(): both files removed
cleanup_checkpoint_files(ckpt, prog) == [checkpoint |-> NoCheckpoint, progress |-> NoProgress]

\* an except clause that emits the row and counts nothing
except_clause_uncounted(stats, rows, row) == [stats |-> stats, rows |-> Append(rows, row)]

\* `except Exception` of the loop: failed += 1, enriched_rows.append(row.to_dict())
\* (row is the row as read from df; enrich_movie_row worked on a copy)
except_clause(stats, rows, row) ==
    [stats |-> [stats EXCEPT !.failed = @ + 1], rows |-> Append(rows, row)]

\* One iteration of `for index in range(start_index, len(df))`, the except
\* clause included: the stats, the accumulator and the files afterwards.
\* After save_checkpoint the ETA block evaluates datetime.timedelta on the
\* class datetime.datetime (AttributeError) whenever start_time is set, so the
\* iteration of a checkpoint ends in the except clause.
iteration(rows_in, client, interval, stats, rows, i, ckpt, prog) ==
    With(rows_in[i + 1], LAMBDA row :
    With(enrich_movie_row(client, row), LAMBDA res :
    With([stats EXCEPT !.processed = @ + 1, !.total_api_calls = @ + res.api_calls],
         LAMBDA stats1 :
    IF res.raised
    THEN With(except_clause(stats1, rows, row), LAMBDA x :
         [stats |-> x.stats, rows |-> x.rows, checkpoint |-> ckpt, progress |-> prog,
          last |-> [index |-> i, input |-> row, result |-> res, checkpointed |-> FALSE,
                    handled |-> TRUE]])
    ELSE
    With(IF res.was_enriched THEN [stats1 EXCEPT !.enriched = @ + 1] ELSE stats1,
         LAMBDA stats2 :
    With(Append(rows, res.row), LAMBDA rows2 :
    IF (i + 1) % interval = 0
    THEN With(written_over(update_progress(prog, i + 1, Len(rows_in)),
                           save_checkpoint(stats2, rows2, i + 1)), LAMBDA saved :
         With(except_clause(stats2, rows2, row), LAMBDA x :
            IF stats2.start_time
            THEN [stats |-> x.stats, rows |-> x.rows,
                  checkpoint |-> saved.checkpoint, progress |-> saved.progress,
                  last |-> [index |-> i, input |-> row, result |-> res,
                            checkpointed |-> TRUE, handled |-> TRUE]]
            ELSE [stats |-> stats2, rows |-> rows2,
                  checkpoint |-> saved.checkpoint, progress |-> saved.progress,
                  last |-> [index |-> i, input |-> row, result |-> res,
                            checkpointed |-> TRUE, handled |-> FALSE]]))
    ELSE [stats |-> stats2, rows |-> rows2, checkpoint |-> ckpt, progress |-> prog,
          last |-> [index |-> i, input |-> row, result |-> res, checkpointed |-> FALSE,
                    handled |-> FALSE]])))))

\* enrich_dataset up to its loop: load_checkpoint, then the fresh start when
\* it returned None
enrich_dataset_begin(file, stats) ==
    With(load_checkpoint(file, stats), LAMBDA ld :
    IF ~ld.found
    THEN [enriched_rows |-> <<>>, start_index |-> 0,
          stats |-> [ld.stats EXCEPT !.start_time = TRUE]]
    ELSE [enriched_rows |-> ld.enriched_rows, start_index |-> ld.current_index,
          stats |-> ld.stats])

\* the loop from row i to the end of the dataset, without interruption
RECURSIVE loop_from(_, _, _, _, _, _, _, _)
loop_from(rows_in, client, interval, stats, rows, i, ckpt, prog) ==
    IF i >= Len(rows_in) THEN [stats |-> stats, rows |-> rows]
    ELSE With(iteration(rows_in, client, interval, stats, rows, i, ckpt, prog), LAMBDA it :
         loop_from(rows_in, client, interval, it.stats, it.rows, i + 1,
                   it.checkpoint, it.progress))

\* one uninterrupted enrich_dataset(df) of a new engine with no checkpoint on disk
uninterrupted(rows_in, client, interval) ==
    With(enrich_dataset_begin(NoCheckpoint, InitialStats), LAMBDA b :
    loop_from(rows_in, client, interval, b.stats, b.enriched_rows, b.start_index,
              NoCheckpoint, NoProgress))

(***************************************************************************)
(* The rows and the client behaviours the model is run on.                 *)
(***************************************************************************)
Up == <<"U", "p">>
Date2009 == <<"2", "0", "0", "9", "-", "0", "5", "-", "2", "9">>
Drama == <<"D", "r", "a", "m", "a">>
Pete == <<"P", "e", "t", "e">>
Bob == <<"B", "o", "b">>
EmptyList == <<"[", "]">>

\* a row with no target column missing
FullRow ==
    [c \in Columns |->
        CASE c = "id" -> Num(1)
          [] c = "title" -> Str(Up)
          [] c = "release_date" -> Str(Date2009)
          [] c = "budget" -> Num(175)
          [] c = "revenue" -> Num(735)
          [] c = "vote_average" -> Num(8)
          [] c = "vote_count" -> Num(9)
          [] c = "popularity" -> Num(3)
          [] c = "rating" -> Num(8)
          [] c = "runtime" -> Num(96)
          [] c = "director" -> Str(Pete)
          [] c = "writers" -> Str(Bob)
          [] c = "cast_top_5" -> Str(Bob)
          [] OTHER -> Str(Drama)]

NoBudget == [FullRow EXCEPT !["budget"] = Num(0)]
\* the same without an id; the year of release_date is known
NoIdNoBudget == [NoBudget EXCEPT !["id"] = None]
\* without an id and without a release date
NoIdNoDate == [NoIdNoBudget EXCEPT !["release_date"] = Str(<<>>)]
\* an id of 0 is not fetched and is not missing
ZeroId == [NoBudget EXCEPT !["id"] = Num(0)]
NaNId == [NoBudget EXCEPT !["id"] = NaN]
\* fields of every class missing
Sparse ==
    [FullRow EXCEPT !["budget"] = Num(0), !["runtime"] = Num(0), !["vote_average"] = Num(0),
                    !["genres"] = Str(EmptyList), !["director"] = NaN, !["writers"] = NaN]
SparseNoId == [Sparse EXCEPT !["id"] = None]
\* no title: nothing to search for
NoTitle == [NoIdNoBudget EXCEPT !["title"] = NaN]

CallRows == {FullRow, NoBudget, NoIdNoBudget, NoIdNoDate, ZeroId, NaNId, Sparse, SparseNoId,
             NoTitle}
DatasetRows == {FullRow, Sparse, NoIdNoBudget}

Meta(f, has_credits, crew) ==
    [k |-> "dict", f |-> [key \in MetaKeys |-> IF key \in DOMAIN f THEN f[key] ELSE Absent],
     has_credits |-> has_credits, crew |-> crew]

\* a complete record with credits; one genre is listed twice
GoodMeta ==
    Meta([budget |-> Num(160), revenue |-> Num(0), runtime |-> Num(0), vote_average |-> Num(7),
          title |-> Str(Up), release_date |-> Str(Date2009),
          genres |-> List(<<Dict(Drama), Dict(<<>>), Dict(Up), Dict(Drama)>>)],
         TRUE, <<[job |-> <<"W", "r", "i", "t", "e", "r">>, name |-> Bob],
                 [job |-> Director, name |-> Pete]>>)
\* a record from which nothing can be written
PoorMeta == Meta([budget |-> Num(0), title |-> Str(Up), vote_average |-> None], FALSE, <<>>)
\* a record of unexpected shape: a rating as text, a list mixing dicts and strings
BadMeta ==
    Meta([budget |-> Num(160), vote_average |-> Str(<<"7">>),
          genres |-> List(<<Dict(Drama), Plain(Up)>>)], FALSE, <<>>)

FetchOutcomes == {Raise, EmptyDict, GoodMeta, PoorMeta, BadMeta}

SearchRaise == [k |-> "raise", ids |-> <<>>]
SearchNone == [k |-> "none", ids |-> <<>>]
SearchNoKey == [k |-> "nokey", ids |-> <<>>]
SearchResults(ids) == [k |-> "results", ids |-> ids]
SearchOutcomes == {SearchRaise, SearchNone, SearchNoKey, SearchResults(<<>>),
                   SearchResults(<<2, 1>>)}

\* TMDbFetcher as the engine calls it: fetch_movie_details takes no
\* append_to_response (TypeError) and there is no search_movie (AttributeError)
fetch_movie_details_parameters == {"movie_id"}
TMDbFetcher_methods == {"_rate_limit", "fetch_movie_details"}
\* the keyword the engine passes to fetch_movie_details, the method it searches with
engine_keywords == {"append_to_response"}
engine_search == "search_movie"
\* the calls of the engine on a TMDbFetcher whose HTTP requests all succeed
TMDbFetcher ==
    [fetch |-> [i \in {1, 2} |->
                    IF engine_keywords \subseteq fetch_movie_details_parameters
                    THEN GoodMeta ELSE Raise],
     search |-> [y \in BOOLEAN |->
                    IF engine_search \in TMDbFetcher_methods
                    THEN SearchResults(<<2, 1>>) ELSE SearchRaise]]

Client(f1, f2, sy, sn) ==
    [fetch |-> [i \in {1, 2} |-> IF i = 1 THEN f1 ELSE f2],
     search |-> [y \in BOOLEAN |-> IF y THEN sy ELSE sn]]

\* the clients of the one-row runs: the outcomes of fetching the row's id 1,
\* of fetching the id 2 that a search finds, and of searching with and
\* without a year
Clients ==
    {Client(f1, f2, sy, sn) :
        f1 \in FetchOutcomes, f2 \in FetchOutcomes \ {PoorMeta},
        sy \in SearchOutcomes, sn \in SearchOutcomes \ {SearchNoKey}}

\* the clients of the dataset runs
DatasetClients ==
    {TMDbFetcher,
     Client(GoodMeta, GoodMeta, SearchResults(<<2, 1>>), SearchResults(<<2, 1>>)),
     Client(EmptyDict, GoodMeta, SearchNone, SearchResults(<<2, 1>>)),
     Client(BadMeta, PoorMeta, SearchResults(<<2, 1>>), SearchResults(<<>>)),
     Client(Raise, GoodMeta, SearchResults(<<2, 1>>), SearchResults(<<>>))}

RECURSIVE SeqsUpTo(_, _)
SeqsUpTo(S, n) ==
    IF n = 0 THEN {<<>>}
    ELSE LET shorter == SeqsUpTo(S, n - 1)
         IN shorter \cup {Append(q, x) : q \in {r \in shorter : Len(r) = n - 1}, x \in S}

(***************************************************************************)
(* State of one DataValidator.validate_dataframe(df, custom_rules,         *)
(* fetch_func, fallback_enabled) call: its arguments, its locals and the   *)
(* validator's counter of corrections.  A dict is a function from its keys; *)
(* a row label is the row's position counted from 0 (a RangeIndex).        *)
(***************************************************************************)
VARIABLES
    custom_rules,        \* the columns of custom_rules in order, <<>> for None
    fetch_func,          \* the correction source, [given, fetch]
    fallback_enabled,
    step,                \* "none": no call; "call": called; "columns": in the loop
                         \* over rules_to_use; "fallback": in the loop of
                         \* _apply_fallback_correction; "returned"
    rules_to_use,
    column_no,           \* position of the loop in rules_to_use
    df_corrected,
    shares_data,         \* whether a write to df_corrected is a write to df
    total_validations,
    total_valid,
    validation_results,
    invalid_indices,     \* of the column under correction
    corrected_indices,   \* of the column under correction
    tried,               \* how many labels of invalid_indices[:max_corrections] are done
    api_corrections,     \* self.validation_stats['api_corrections']
    fetch_calls          \* the calls of fetch_func so far, [column, idx, id]

validate_vars ==
    <<custom_rules, fetch_func, fallback_enabled, step, rules_to_use, column_no,
      df_corrected, shares_data, total_validations, total_valid, validation_results, invalid_indices,
      corrected_indices, tried, api_corrections, fetch_calls>>

NoFetch == [given |-> FALSE, fetch |-> [i \in {1, 2} |-> Raise]]

NoResultsYet ==
    [valid_rows |-> <<>>, invalid_rows |-> <<>>, corrected_rows |-> <<>>, total_rows |-> 0,
     validation_summary |-> <<>>, overall_health_score |-> [num |-> 0, den |-> 1]]

\* no validate_dataframe call is under way
NotValidating ==
    /\ custom_rules = <<>>
    /\ fetch_func = NoFetch
    /\ fallback_enabled = FALSE
    /\ step = "none"
    /\ rules_to_use = <<>>
    /\ column_no = 0
    /\ df_corrected = <<>>
    /\ shares_data = FALSE
    /\ total_validations = 0
    /\ total_valid = 0
    /\ validation_results = NoResultsYet
    /\ invalid_indices = <<>>
    /\ corrected_indices = <<>>
    /\ tried = 0
    /\ api_corrections = 0
    /\ fetch_calls = <<>>

(***************************************************************************)
(* One call of a function of the cleaning pipeline, of the validator or of *)
(* the fetcher on its own: the arguments it is called with and what it     *)
(* gave back.                                                              *)
(***************************************************************************)
VARIABLES
    args,                \* the arguments of the call, <<>> when there is none
    result               \* Pending until the call is over, then its outcome

\* TMDbFetcher.fetch_movie_details: the configured MAX_RETRIES and the state of
\* its retry loop
VARIABLES
    MAX_RETRIES,         \* config.MAX_RETRIES
    fetching,            \* "none": no call; "loop": in the retry loop; "returned"
    attempt,             \* the loop variable
    outcomes,            \* how each HTTP attempt ended: "ok", "request" for a
                         \* requests.exceptions.RequestException, "other" for any
                         \* other exception
    backoffs,            \* the seconds of each time.sleep(2 ** attempt)
    rate_waits           \* how often _rate_limit had to sleep

fetcher_vars == <<MAX_RETRIES, fetching, attempt, outcomes, backoffs, rate_waits>>

pure_vars == <<args, result, fetcher_vars>>

Pending == [pending |-> TRUE]

\* no fetch_movie_details call is under way
NotFetching ==
    /\ MAX_RETRIES = 0
    /\ fetching = "none"
    /\ attempt = 0
    /\ outcomes = <<>>
    /\ backoffs = <<>>
    /\ rate_waits = 0

\* no such call is under way
NotCalling ==
    /\ args = <<>>
    /\ result = Pending
    /\ NotFetching

\* no enrichment job is under way
NotEnriching ==
    /\ df = <<>>
    /\ tmdb = TMDbFetcher
    /\ checkpoint_interval = 1
    /\ pc = "none"
    /\ enrichment_stats = InitialStats
    /\ enriched_rows = <<>>
    /\ start_index = 0
    /\ index = 0
    /\ checkpoint_file = NoCheckpoint
    /\ progress_file = NoProgress
    /\ restarts = 0
    /\ interrupted_at = -1
    /\ loaded = NoCheckpoint
    /\ last = NoLast
    /\ output_file = NoOutput

(***************************************************************************)
(* Spec: enrichment jobs over a dataset, the process killed and started    *)
(* again at most MaxRestarts times.                                        *)
(***************************************************************************)
Init ==
    /\ df \in SeqsUpTo(DatasetRows, MaxRows) \ {<<>>}
    /\ tmdb \in DatasetClients
    /\ checkpoint_interval \in 1..MaxInterval
    /\ pc = "new"
    /\ enrichment_stats = InitialStats
    /\ enriched_rows = <<>>
    /\ start_index = 0
    /\ index = 0
    /\ checkpoint_file = NoCheckpoint
    /\ progress_file = NoProgress
    /\ restarts = 0
    /\ interrupted_at = -1
    /\ loaded = NoCheckpoint
    /\ last = NoLast
    /\ output_file = NoOutput
    /\ NotValidating
    /\ NotCalling

\* enrich_dataset, lines 456-479
EnrichDatasetBegin ==
    /\ pc = "new"
    /\ \E b \in {enrich_dataset_begin(checkpoint_file, enrichment_stats)} :
       /\ enriched_rows' = b.enriched_rows
       /\ start_index' = b.start_index
       /\ index' = b.start_index
       /\ enrichment_stats' = b.stats
    /\ loaded' = checkpoint_file
    /\ pc' = "loop"
    /\ UNCHANGED <<df, tmdb, checkpoint_interval, checkpoint_file, progress_file, restarts,
                   interrupted_at, last, output_file>>
    /\ UNCHANGED <<validate_vars, pure_vars>>

\* one iteration of the loop, lines 481-527
ProcessRow ==
    /\ pc = "loop"
    /\ index < Len(df)
    /\ \E it \in {iteration(df, tmdb, checkpoint_interval, enrichment_stats, enriched_rows,
                              index, checkpoint_file, progress_file)} :
       /\ enrichment_stats' = it.stats
       /\ enriched_rows' = it.rows
       /\ checkpoint_file' = it.checkpoint
       /\ progress_file' = it.progress
       /\ last' = it.last
    /\ index' = index + 1
    /\ UNCHANGED <<df, tmdb, checkpoint_interval, pc, start_index, restarts, interrupted_at,
                   loaded, output_file>>
    /\ UNCHANGED <<validate_vars, pure_vars>>

\* return pd.DataFrame(enriched_rows), line 529
EnrichDatasetReturn ==
    /\ pc = "loop"
    /\ index >= Len(df)
    /\ pc' = "returned"
    /\ UNCHANGED <<df, tmdb, checkpoint_interval, enrichment_stats, enriched_rows,
                   start_index, index, checkpoint_file, progress_file, restarts,
                   interrupted_at, loaded, last, output_file>>
    /\ UNCHANGED <<validate_vars, pure_vars>>

\* the process is killed between two iterations and the job is started again:
\* a new engine (__init__), the files as they were left
Interrupt ==
    /\ pc = "loop"
    /\ index < Len(df)
    /\ restarts < MaxRestarts
    /\ restarts' = restarts + 1
    /\ interrupted_at' = index
    /\ pc' = "new"
    /\ enrichment_stats' = InitialStats
    /\ enriched_rows' = <<>>
    /\ start_index' = 0
    /\ index' = 0
    /\ last' = NoLast
    /\ loaded' = NoCheckpoint
    /\ UNCHANGED <<df, tmdb, checkpoint_interval, checkpoint_file, progress_file,
                   output_file>>
    /\ UNCHANGED <<validate_vars, pure_vars>>

\* the checkpoint file of a killed job is damaged on disk (cut short, written
\* over) before the job is started again
DamageCheckpoint ==
    /\ pc = "new"
    /\ checkpoint_file.exists
    /\ checkpoint_file.readable
    /\ checkpoint_file' = [checkpoint_file EXCEPT !.readable = FALSE]
    /\ UNCHANGED <<df, tmdb, checkpoint_interval, pc, enrichment_stats, enriched_rows,
                   start_index, index, progress_file, restarts, interrupted_at, loaded,
                   last, output_file>>
    /\ UNCHANGED <<validate_vars, pure_vars>>

\* main after enrich_dataset, lines 610-622: the output is written and the
\* checkpoint files are cleaned up
WriteOutput ==
    /\ pc = "returned"
    /\ output_file' = [exists |-> TRUE, rows |-> filter_output_columns(enriched_rows)]
    /\ \E c \in {cleanup_checkpoint_files(checkpoint_file, progress_file)} :
        /\ checkpoint_file' = c.checkpoint
        /\ progress_file' = c.progress
    /\ pc' = "done"
    /\ UNCHANGED <<df, tmdb, checkpoint_interval, enrichment_stats, enriched_rows,
                   start_index, index, restarts, interrupted_at, loaded, last>>
    /\ UNCHANGED <<validate_vars, pure_vars>>

\* main after enrich_dataset: write_csv raises, main logs and raises (line 633)
WriteOutputFails ==
    /\ pc = "returned"
    /\ pc' = "failed"
    /\ UNCHANGED <<df, tmdb, checkpoint_interval, enrichment_stats, enriched_rows,
                   start_index, index, checkpoint_file, progress_file, restarts,
                   interrupted_at, loaded, last, output_file>>
    /\ UNCHANGED <<validate_vars, pure_vars>>

Next ==
    \/ EnrichDatasetBegin
    \/ ProcessRow
    \/ EnrichDatasetReturn
    \/ Interrupt
    \/ DamageCheckpoint
    \/ WriteOutput
    \/ WriteOutputFails

vars == <<enrich_vars, validate_vars, pure_vars>>

Spec == Init /\ [][Next]_vars

(***************************************************************************)
(* SpecCall: the same engine on every one-row dataset of CallRows, with    *)
(* every client behaviour of Clients.                                      *)
(***************************************************************************)
InitCall ==
    /\ df \in {<<r>> : r \in CallRows}
    /\ tmdb \in Clients
    /\ checkpoint_interval = 1
    /\ pc = "new"
    /\ enrichment_stats = InitialStats
    /\ enriched_rows = <<>>
    /\ start_index = 0
    /\ index = 0
    /\ checkpoint_file = NoCheckpoint
    /\ progress_file = NoProgress
    /\ restarts = 0
    /\ interrupted_at = -1
    /\ loaded = NoCheckpoint
    /\ last = NoLast
    /\ output_file = NoOutput
    /\ NotValidating
    /\ NotCalling

\* one enrich_dataset call, neither killed nor followed by main's output
NextCall == EnrichDatasetBegin \/ ProcessRow \/ EnrichDatasetReturn

SpecCall == InitCall /\ [][NextCall]_vars

(***************************************************************************)
(* DataValidator: the predicates of the validated columns.  Each catches   *)
(* every exception and answers False, so _safe_validate never sees one.    *)
(***************************************************************************)
\* the correction cap of _apply_fallback_correction
MaxCorrections == 10

\* float(x): [ok, nan, n], ok FALSE when float raises
number(v) ==
    CASE v.k = "int" -> [ok |-> TRUE, nan |-> FALSE, n |-> v.n]
      [] v.k = "nan" -> [ok |-> TRUE, nan |-> TRUE, n |-> 0]
      [] v.k = "str" ->
            IF lower(strip(v.s)) = <<"n", "a", "n">>
            THEN [ok |-> TRUE, nan |-> TRUE, n |-> 0]
            ELSE [ok |-> float(v.s).ok, nan |-> FALSE, n |-> float(v.s).n]
      [] OTHER -> [ok |-> FALSE, nan |-> FALSE, n |-> 0]

\* int(float(x)): int raises on a NaN
whole(f) == [ok |-> f.ok /\ ~f.nan, nan |-> FALSE, n |-> f.n]

\* int(x) for a cell of the id column
int(v) ==
    CASE v.k = "int" -> [ok |-> TRUE, n |-> v.n]
      [] v.k = "str" -> [ok |-> float(v.s).ok, n |-> float(v.s).n]
      [] OTHER -> [ok |-> FALSE, n |-> 0]

validate_movie_id(movie_id) ==
    IF isna(movie_id) THEN FALSE
    ELSE With(whole(number(Str(str(movie_id)))), LAMBDA id_val : id_val.ok /\ id_val.n > 0)

validate_rating(rating) ==
    IF isna(rating) THEN FALSE
    ELSE With(number(rating), LAMBDA rating_val :
            rating_val.ok /\ ~rating_val.nan /\ 0 <= rating_val.n /\ rating_val.n <= 10)

validate_votes(votes) ==
    IF isna(votes) THEN FALSE
    ELSE With(whole(number(Str(str(votes)))), LAMBDA votes_val :
            votes_val.ok /\ votes_val.n >= 0)

validate_financial(amount) ==
    IF isna(amount) THEN FALSE
    ELSE With(number(amount), LAMBDA amount_val :
            amount_val.ok /\ ~amount_val.nan /\ amount_val.n >= 0)

validate_runtime(runtime) ==
    IF isna(runtime) THEN FALSE
    ELSE With(whole(number(Str(str(runtime)))), LAMBDA runtime_val :
            runtime_val.ok /\ 1 <= runtime_val.n /\ runtime_val.n <= 600)

\* the columns of a validated dataset
df_columns == {"id", "vote_average", "vote_count", "runtime", "budget"}

\* self._validation_rules restricted to the columns a dataset or a rule set
\* of the model names, in the dict's order
validation_rule_columns ==
    <<"id", "vote_average", "vote_count", "runtime", "budget", "imdb_rating">>

\* _safe_validate(validator, value, column) with the validator that
\* _validation_rules and COMPREHENSIVE_VALIDATION_RULES give the column
safe_validate(column, value) ==
    CASE column = "id" -> validate_movie_id(value)
      [] column \in {"vote_average", "imdb_rating"} -> validate_rating(value)
      [] column = "vote_count" -> validate_votes(value)
      [] column = "runtime" -> validate_runtime(value)
      [] column = "budget" -> validate_financial(value)
      [] OTHER -> FALSE

api_enrichable_fields ==
    {"vote_average", "vote_count", "genres", "production_companies", "production_countries",
     "spoken_languages", "cast", "director", "writers"}

\* dict[key] = value
Put(dict, key, value) ==
    [x \in DOMAIN dict \cup {key} |-> IF x = key THEN value ELSE dict[x]]

\* part / whole * 100 as a fraction
percentage(part, all) == IF all > 0 THEN [num |-> part * 100, den |-> all]
                         ELSE [num |-> 0, den |-> 1]

\* the labels of the rows of data whose cell of column is (in)valid
labels(data, column, valid) ==
    SelectSeq([i \in 1..Len(data) |-> i - 1],
              LAMBDA idx : safe_validate(column, data[idx + 1][column]) = valid)

\* custom_rules if custom_rules else the default rules of the dataset's columns
rules_of(rules) ==
    IF rules # <<>> THEN rules
    ELSE SelectSeq(validation_rule_columns, LAMBDA col : col \in df_columns)

\* the condition of "Apply fallback logic if enabled"
fallback_applies(enabled, func, invalid_count, column) ==
    enabled /\ func.given /\ invalid_count > 0 /\ column # "id"
        /\ column \in api_enrichable_fields

\* no cap on the corrections
max_corrections_unlimited(invalid) == Len(invalid)

max_corrections(invalid) ==
    IF MaxCorrections < Len(invalid) THEN MaxCorrections ELSE Len(invalid)

\* float(x) if x else 0, and int(float(x)) if x else 0
float_or_0(v) == IF Truthy(v) THEN number(v) ELSE [ok |-> TRUE, nan |-> FALSE, n |-> 0]
int_or_0(v) == IF Truthy(v) THEN whole(number(v)) ELSE [ok |-> TRUE, nan |-> FALSE, n |-> 0]

IsZero(x) == ~x.nan /\ x.n = 0
Greater(x, y) == ~x.nan /\ ~y.nan /\ x.n > y.n

Chosen(v) == [raised |-> FALSE, value |-> v]
ChoiceRaised == [raised |-> TRUE, value |-> None]

\* _choose_better_value(column, current_value, api_value)
choose_better_value(column, current_value, api_value) ==
    IF current_value.k = "list" /\ Len(current_value.l) > 1 THEN ChoiceRaised
    ELSE IF isna(current_value) \/ strip(str(current_value)) = <<>>
            \/ lower(str(current_value)) = <<"n", "a", "n">>
    THEN Chosen(api_value)
    ELSE IF column \in {"vote_average", "imdb_rating", "avg_rating"}
    THEN With(float_or_0(current_value), LAMBDA current_val :
         With(float_or_0(api_value), LAMBDA api_val :
            IF ~current_val.ok \/ ~api_val.ok THEN ChoiceRaised
            ELSE IF IsZero(current_val) /\ Greater(api_val, current_val)
                 THEN Chosen(api_value)
            ELSE IF IsZero(api_val) /\ Greater(current_val, api_val)
                 THEN Chosen(current_value)
            ELSE IF Greater(api_val, current_val) THEN Chosen(api_value)
                 ELSE Chosen(current_value)))
    ELSE IF column \in {"vote_count", "imdb_votes", "total_ratings"}
    THEN With(int_or_0(current_value), LAMBDA current_val :
         With(int_or_0(api_value), LAMBDA api_val :
            IF ~current_val.ok \/ ~api_val.ok THEN ChoiceRaised
            ELSE IF Greater(api_val, current_val) THEN Chosen(api_value)
                 ELSE Chosen(current_value)))
    ELSE IF column \in {"budget", "revenue"}
    THEN With(float_or_0(current_value), LAMBDA current_val :
         With(float_or_0(api_value), LAMBDA api_val :
            IF ~current_val.ok \/ ~api_val.ok THEN ChoiceRaised
            ELSE IF IsZero(current_val) /\ Greater(api_val, current_val)
                 THEN Chosen(api_value)
            ELSE IF IsZero(api_val) /\ Greater(current_val, api_val)
                 THEN Chosen(current_value)
                 ELSE Chosen(api_value)))
    ELSE IF column = "runtime"
    THEN With(int_or_0(current_value), LAMBDA current_val :
         With(int_or_0(api_value), LAMBDA api_val :
            IF ~current_val.ok \/ ~api_val.ok THEN ChoiceRaised
            ELSE IF 60 <= api_val.n /\ api_val.n <= 300 THEN Chosen(api_value)
            ELSE IF 60 <= current_val.n /\ current_val.n <= 300 THEN Chosen(current_value)
                 ELSE Chosen(api_value)))
    ELSE IF column \in {"genres", "cast", "director", "writers", "production_companies",
                        "production_countries", "spoken_languages"}
    THEN IF api_value.k = "list" /\ current_value.k = "list"
         THEN IF Len(api_value.l) > Len(current_value.l) THEN Chosen(api_value)
              ELSE Chosen(current_value)
         ELSE IF api_value.k = "list" THEN Chosen(api_value)
         ELSE IF current_value.k = "list" THEN Chosen(current_value)
         ELSE IF Len(strip(str(api_value))) > Len(strip(str(current_value)))
              THEN Chosen(api_value)
              ELSE Chosen(current_value)
    ELSE Chosen(api_value)

\* one pass of the loop of _apply_fallback_correction, for the row labelled
\* idx: [called, id, write, value]
correct_value(data, column, idx, func) ==
    With(data[idx + 1]["id"], LAMBDA movie_id :
    IF isna(movie_id) \/ ~int(movie_id).ok
    THEN [called |-> FALSE, id |-> 0, write |-> FALSE, value |-> None]
    ELSE
    With(int(movie_id).n, LAMBDA id :
    With(IF id \in DOMAIN func.fetch THEN func.fetch[id] ELSE EmptyDict, LAMBDA api_data :
    IF HasData(api_data) /\ column \in MetaKeys /\ api_data.f[column].k # "absent"
           /\ safe_validate(column, api_data.f[column])
    THEN With(choose_better_value(column, data[idx + 1][column], api_data.f[column]),
              LAMBDA better :
            [called |-> TRUE, id |-> id,
             write |-> ~better.raised /\ better.value # data[idx + 1][column],
             value |-> better.value])
    ELSE [called |-> TRUE, id |-> id, write |-> FALSE, value |-> None])))

\* df.copy(deep=False), whatever deep says
copy_shallow(data, deep) == [data |-> data, shares |-> TRUE]

\* df.copy(deep): the copy's data, and whether the copy shares it with df
copy(data, deep) == [data |-> data, shares |-> ~deep]

\* total_valid += improvement, without the improvement
add_improvement_dropped(total, new_valid_count, valid_count) == total

\* total_valid += improvement
add_improvement(total, new_valid_count, valid_count) ==
    total + (new_valid_count - valid_count)

(***************************************************************************)
(* The datasets, rule sets and correction sources of the validation runs.  *)
(***************************************************************************)
\* the longest run of equal rows in a validated dataset
MaxPad == 11

Abc == <<"a", "b", "c">>

ValidRow ==
    [id |-> Num(1), vote_average |-> Num(8), vote_count |-> Num(9), runtime |-> Num(96),
     budget |-> Num(175)]
ZeroRow ==
    [id |-> Num(1), vote_average |-> Num(0), vote_count |-> Num(0), runtime |-> Num(0),
     budget |-> Num(0)]
NullRow ==
    [id |-> Num(2), vote_average |-> NaN, vote_count |-> NaN, runtime |-> NaN,
     budget |-> NaN]
NoIdRow ==
    [id |-> NaN, vote_average |-> NaN, vote_count |-> Str(Abc), runtime |-> Num(700),
     budget |-> NaN]
OddRow ==
    [id |-> Str(<<"2">>), vote_average |-> Num(11), vote_count |-> Str(Abc),
     runtime |-> Str(Abc), budget |-> Num(-1)]

ValidationRows == {ValidRow, ZeroRow, NullRow, NoIdRow, OddRow}

ValidationDatasets ==
    {[i \in 1..(na + nb) |-> IF i <= na THEN a ELSE b] :
        a \in ValidationRows, b \in ValidationRows, na \in {0, 1, MaxPad}, nb \in {0, 1}}

RuleSets ==
    {<<>>, <<"vote_average">>, <<"imdb_rating">>, <<"vote_count", "budget", "imdb_rating">>}

ApiRated ==
    Meta([vote_average |-> Num(8), vote_count |-> Num(9), runtime |-> Num(90),
          budget |-> Num(160)], FALSE, <<>>)
ApiZero ==
    Meta([vote_average |-> Num(0), vote_count |-> Num(0), runtime |-> Num(0),
          budget |-> Num(0)], FALSE, <<>>)
ApiInvalid ==
    Meta([vote_average |-> Num(11), vote_count |-> Str(Abc), title |-> Str(Up)], FALSE, <<>>)
ApiTitle == Meta([title |-> Str(Up)], FALSE, <<>>)

Fetch(f1, f2) == [given |-> TRUE, fetch |-> [i \in {1, 2} |-> IF i = 1 THEN f1 ELSE f2]]

FetchFuncs ==
    {NoFetch, Fetch(ApiRated, ApiRated), Fetch(ApiZero, ApiRated), Fetch(Raise, ApiInvalid),
     Fetch(EmptyDict, ApiTitle)}

(***************************************************************************)
(* SpecValidate: one validate_dataframe call on each dataset, rule set and *)
(* correction source.                                                      *)
(***************************************************************************)
InitValidate ==
    /\ df \in ValidationDatasets
    /\ tmdb = TMDbFetcher
    /\ checkpoint_interval = 1
    /\ pc = "none"
    /\ enrichment_stats = InitialStats
    /\ enriched_rows = <<>>
    /\ start_index = 0
    /\ index = 0
    /\ checkpoint_file = NoCheckpoint
    /\ progress_file = NoProgress
    /\ restarts = 0
    /\ interrupted_at = -1
    /\ loaded = NoCheckpoint
    /\ last = NoLast
    /\ output_file = NoOutput
    /\ custom_rules \in RuleSets
    /\ fetch_func \in FetchFuncs
    /\ fallback_enabled \in BOOLEAN
    /\ step = "call"
    /\ rules_to_use = <<>>
    /\ column_no = 0
    /\ df_corrected = <<>>
    /\ shares_data = FALSE
    /\ total_validations = 0
    /\ total_valid = 0
    /\ validation_results = NoResultsYet
    /\ invalid_indices = <<>>
    /\ corrected_indices = <<>>
    /\ tried = 0
    /\ api_corrections = 0
    /\ fetch_calls = <<>>
    /\ NotCalling

\* validate_dataframe up to its loop over the columns, lines 366-391
ValidateDataframeBegin ==
    /\ step = "call"
    /\ rules_to_use' = rules_of(custom_rules)
    /\ validation_results' = [NoResultsYet EXCEPT !.total_rows = Len(df)]
    /\ \E copied \in {copy(df, TRUE)} :
        /\ df_corrected' = copied.data
        /\ shares_data' = copied.shares
    /\ total_validations' = 0
    /\ total_valid' = 0
    /\ column_no' = 1
    /\ step' = "columns"
    /\ UNCHANGED <<custom_rules, fetch_func, fallback_enabled, invalid_indices,
                   corrected_indices, tried, api_corrections, fetch_calls>>
    /\ UNCHANGED <<enrich_vars, pure_vars>>

\* one column of the loop, lines 394-426: the column is validated on df and
\* either handed to _apply_fallback_correction or left as it is.  On a
\* dataset without rows the mask of a float column cannot be inverted and
\* the column is given up (lines 453-455), the mask of an object column can.
ValidateColumn ==
    /\ step = "columns"
    /\ column_no <= Len(rules_to_use)
    /\ \E column \in {rules_to_use[column_no]},
          gave_up \in IF Len(df) = 0 THEN BOOLEAN ELSE {FALSE} :
        IF column \notin df_columns \/ gave_up
        THEN /\ column_no' = column_no + 1
             /\ UNCHANGED <<step, total_validations, total_valid, validation_results,
                            invalid_indices, corrected_indices, tried>>
        ELSE \E invalid \in {labels(df, column, FALSE)} :
             \E valid \in {labels(df, column, TRUE)} :
             /\ total_validations' = total_validations + Len(df)
             /\ total_valid' = total_valid + Len(valid)
             /\ validation_results' =
                    [validation_results EXCEPT
                        !.valid_rows = Put(@, column, valid),
                        !.invalid_rows = Put(@, column, invalid),
                        !.validation_summary =
                            Put(@, column,
                                [valid |-> Len(valid), invalid |-> Len(invalid),
                                 percentage_valid |-> percentage(Len(valid), Len(df))])]
             /\ IF fallback_applies(fallback_enabled, fetch_func, Len(invalid), column)
                THEN /\ step' = "fallback"
                     /\ invalid_indices' = invalid
                     /\ corrected_indices' = <<>>
                     /\ tried' = 0
                     /\ column_no' = column_no
                ELSE /\ column_no' = column_no + 1
                     /\ UNCHANGED <<step, invalid_indices, corrected_indices, tried>>
    /\ UNCHANGED <<custom_rules, fetch_func, fallback_enabled, rules_to_use, df_corrected,
                   shares_data, api_corrections, fetch_calls>>
    /\ UNCHANGED <<enrich_vars, pure_vars>>

\* one pass of the loop of _apply_fallback_correction, lines 498-524
CorrectValue ==
    /\ step = "fallback"
    /\ tried < max_corrections(invalid_indices)
    /\ \E column \in {rules_to_use[column_no]}, idx \in {invalid_indices[tried + 1]} :
       \E c \in {correct_value(df_corrected, column, idx, fetch_func)} :
        /\ fetch_calls' = IF c.called
                          THEN Append(fetch_calls, [column |-> column, idx |-> idx, id |-> c.id])
                          ELSE fetch_calls
        /\ df_corrected' = IF c.write
                           THEN [df_corrected EXCEPT ![idx + 1][column] = c.value]
                           ELSE df_corrected
        /\ df' = IF c.write /\ shares_data
                 THEN [df EXCEPT ![idx + 1][column] = c.value]
                 ELSE df
        /\ corrected_indices' = IF c.write THEN Append(corrected_indices, idx)
                                ELSE corrected_indices
    /\ tried' = tried + 1
    /\ UNCHANGED <<custom_rules, fetch_func, fallback_enabled, step, rules_to_use, column_no,
                   shares_data, total_validations, total_valid, validation_results,
                   invalid_indices, api_corrections>>
    /\ UNCHANGED <<tmdb, checkpoint_interval, pc, enrichment_stats, enriched_rows,
                   start_index, index, checkpoint_file, progress_file, restarts,
                   interrupted_at, loaded, last, output_file>>
    /\ UNCHANGED pure_vars

\* _apply_fallback_correction returns: the re-validation of lines 430-451
CorrectionDone ==
    /\ step = "fallback"
    /\ tried >= max_corrections(invalid_indices)
    /\ \E column \in {rules_to_use[column_no]} :
       \E new_valid_count \in {Len(labels(df_corrected, column, TRUE))} :
       \E valid_count \in {validation_results.validation_summary[column].valid} :
        IF corrected_indices # <<>>
        THEN /\ validation_results' =
                    [validation_results EXCEPT
                        !.corrected_rows = Put(@, column, corrected_indices),
                        !.validation_summary[column] =
                            [corrected |-> Len(corrected_indices),
                             valid_after_correction |-> new_valid_count,
                             improvement |-> new_valid_count - valid_count,
                             final_percentage_valid |->
                                 percentage(new_valid_count, Len(df))] @@ @]
             /\ total_valid' = add_improvement(total_valid, new_valid_count, valid_count)
             /\ api_corrections' = api_corrections + Len(corrected_indices)
        ELSE /\ validation_results' =
                    [validation_results EXCEPT
                        !.corrected_rows = Put(@, column, corrected_indices)]
             /\ UNCHANGED <<total_valid, api_corrections>>
    /\ column_no' = column_no + 1
    /\ step' = "columns"
    /\ invalid_indices' = <<>>
    /\ corrected_indices' = <<>>
    /\ tried' = 0
    /\ UNCHANGED <<custom_rules, fetch_func, fallback_enabled, rules_to_use, df_corrected,
                   shares_data, total_validations, fetch_calls>>
    /\ UNCHANGED <<enrich_vars, pure_vars>>

\* the health score and the return, lines 457-469
ValidateDataframeReturn ==
    /\ step = "columns"
    /\ column_no > Len(rules_to_use)
    /\ validation_results' =
            [validation_results EXCEPT
                !.overall_health_score = percentage(total_valid, total_validations)]
    /\ step' = "returned"
    /\ UNCHANGED <<custom_rules, fetch_func, fallback_enabled, rules_to_use, column_no,
                   df_corrected, shares_data, total_validations, total_valid,
                   invalid_indices, corrected_indices, tried, api_corrections, fetch_calls>>
    /\ UNCHANGED <<enrich_vars, pure_vars>>

NextValidate ==
    \/ ValidateDataframeBegin
    \/ ValidateColumn
    \/ CorrectValue
    \/ CorrectionDone
    \/ ValidateDataframeReturn

SpecValidate == InitValidate /\ [][NextValidate]_vars

(***************************************************************************)
(* Claims.                                                                 *)
(***************************************************************************)
\* an iteration of the loop has run in this process
Iterated == pc \in {"loop", "returned"} /\ index > start_index
\* enrich_dataset has loaded (or not found) the checkpoint and not yet iterated
JustBegun == pc = "loop" /\ index = start_index /\ last = NoLast

Counters(st) == <<st.processed, st.enriched, st.failed, st.total_api_calls>>

\* C1: when enrich_dataset starts and a checkpoint written by save_checkpoint
\* exists, the loop resumes at the checkpoint's current_index with the
\* checkpoint's accumulated rows, and the statistics continue from the
\* checkpoint's stats.
C1_ResumesAtCheckpoint ==
    (JustBegun /\ loaded.exists /\ loaded.readable) =>
        /\ start_index = loaded.current_index
        /\ enriched_rows = loaded.enriched_rows
        /\ Counters(enrichment_stats) = Counters(loaded.stats)

\* C2: a run interrupted right after the checkpoint at row k < N and started
\* again ends with the processed, enriched, failed and total_api_calls totals
\* and the output rows of one uninterrupted run over the N rows.
C2_ResumeEqualsUninterrupted ==
    (pc = "returned" /\ restarts = 1 /\ interrupted_at > 0
     /\ interrupted_at % checkpoint_interval = 0 /\ loaded.readable) =>
        \E u \in {uninterrupted(df, tmdb, checkpoint_interval)} :
            /\ Counters(enrichment_stats) = Counters(u.stats)
            /\ enriched_rows = u.rows

\* a step that is one iteration of the loop
IterationStep == pc = "loop" /\ pc' = "loop" /\ index' = index + 1

\* no target column of the row is missing
Complete(row) ==
    \A i \in 1..Len(target_columns) : ~is_field_missing(row[target_columns[i]], target_columns[i])

\* C3: for a record with no target column missing, enrich_movie_row returns
\* the record unchanged with was_enriched = false and calls the client neither
\* to fetch nor to search, so total_api_calls is unchanged.
C3_CompleteRecordSkipped ==
    [][(IterationStep /\ Complete(df[index + 1])) =>
          /\ ~last'.result.raised
          /\ last'.result.row = df[index + 1]
          /\ ~last'.result.was_enriched
          /\ last'.result.calls = <<>>
          /\ enrichment_stats'.total_api_calls = enrichment_stats.total_api_calls
          /\ enrichment_stats'.enriched = enrichment_stats.enriched]_vars

C3_Witness ==
    /\ Iterated
    /\ Complete(last.input)
    /\ tmdb.fetch[1] = GoodMeta
    /\ enriched_rows[1] = last.input

\* C4: when enrich_movie_row gets its metadata through the title search, the
\* record's id becomes the id the search found if and only if its id was
\* missing; a record with a non-missing id keeps it.
C4_IdOverwrittenOnlyIfMissing ==
    (Iterated /\ last.result.via_search /\ ~last.result.raised) =>
        LET r == last.result
            search_movie_id == Num(r.calls[Len(r.calls)].id)
        IN r.row["id"] = IF is_field_missing(last.input["id"], "id")
                         THEN search_movie_id ELSE last.input["id"]

\* a present id whose fetch gave nothing, kept although the search found another
C4_Witness ==
    /\ Iterated
    /\ last.result.via_search
    /\ ~last.result.raised
    /\ last.input["id"] = Num(1)
    /\ last.result.calls[Len(last.result.calls)].id = 2
    /\ last.result.row["id"] = Num(1)

\* a missing id replaced by the id found
C4_WitnessMissing ==
    /\ Iterated
    /\ last.result.via_search
    /\ last.input["id"] = None
    /\ last.result.row["id"] = Num(2)

\* C5: was_enriched is true if and only if at least one missing target field
\* was written from the metadata (a fetch that writes nothing, or only an id
\* overwrite, leaves it false), and the enriched counter grows by exactly one
\* for a record reported enriched and not at all otherwise.
C5_EnrichedIffWritten ==
    [][IterationStep =>
          LET r == last'.result IN
          /\ r.was_enriched <=> (~r.raised /\ r.written # {})
          /\ r.written \subseteq {f \in Columns \ {"id"} : is_field_missing(df[index + 1][f], f)}
          /\ ~r.raised =>
                {f \in Columns \ {"id"} : r.row[f] # df[index + 1][f]} \subseteq r.written
          /\ enrichment_stats'.enriched =
                enrichment_stats.enriched + (IF r.was_enriched THEN 1 ELSE 0)]_vars

\* a fetch through the search that overwrote the id and wrote no field
C5_Witness ==
    /\ Iterated
    /\ last.result.via_search
    /\ last.result.row["id"] # last.input["id"]
    /\ last.result.written = {}
    /\ ~last.result.was_enriched
    /\ enrichment_stats.enriched = 0

C5_WitnessEnriched ==
    /\ Iterated
    /\ last.result.was_enriched
    /\ "budget" \in last.result.written
    /\ enrichment_stats.enriched = 1

\* the client raised in a fetch or in a search of the call
FetchRaised(r) ==
    \E i \in 1..Len(r.calls) : r.calls[i].op = "fetch" /\ tmdb.fetch[r.calls[i].id].k = "raise"
SearchRaised(r) ==
    \E i \in 1..Len(r.calls) :
        r.calls[i].op = "search" /\ tmdb.search[r.calls[i].year].k = "raise"

C6_WitnessFetchRaised ==
    /\ Iterated
    /\ FetchRaised(last.result)
    /\ last.result.was_enriched
    /\ ~last.checkpointed
    /\ enrichment_stats.failed = 0

Searches(r) == SelectSeq(r.calls, LAMBDA c : c.op = "search")
NoResults(o) == o.k \in {"none", "nokey"} \/ (o.k = "results" /\ o.ids = <<>>)

\* C7: in find_movie_by_search, when the year is known and the search with the
\* year returns no results (an empty result list included), exactly one more
\* search is made, without the year, and the id returned is the first result
\* of the last search; when the year is unknown at most one search is made.
C7_RetryWithoutYear ==
    Iterated =>
        LET s == Searches(last.result) IN
        /\ (s # <<>> /\ s[1].year /\ NoResults(tmdb.search[TRUE])) =>
              /\ Len(s) = 2
              /\ ~s[2].year
        /\ (s # <<>> /\ ~s[1].year) => Len(s) = 1
        /\ \A i \in 1..Len(last.result.calls) :
              (i > 1 /\ last.result.calls[i].op = "fetch"
               /\ last.result.calls[i - 1].op = "search") =>
                  LET o == tmdb.search[last.result.calls[i - 1].year] IN
                  o.k = "results" /\ o.ids # <<>> /\ last.result.calls[i].id = o.ids[1]

Validated == step = "returned"

Range(seq) == {seq[i] : i \in DOMAIN seq}

\* the correction source answers id with a valid positive vote_average
GivesRating(func, id) ==
    /\ func.given
    /\ id \in DOMAIN func.fetch
    /\ HasData(func.fetch[id])
    /\ func.fetch[id].f["vote_average"].k = "int"
    /\ func.fetch[id].f["vote_average"].n > 0
    /\ validate_rating(func.fetch[id].f["vote_average"])

\* C8: after validate_dataframe with a correction source, every record whose
\* vote_average is 0 and whose id is present, and for whose id the source
\* returns a valid positive vote_average v, holds v in the corrected dataframe
\* and is listed among the corrected records of vote_average (datasets of at
\* most 10 rows, so that the correction cap plays no part).
C8_ZeroRatingCorrected ==
    (Validated /\ fallback_enabled /\ "vote_average" \in Range(rules_to_use)
        /\ Len(df) <= 10)
    => \A i \in 1..Len(df) :
        (df[i]["vote_average"] = Num(0) /\ df[i]["id"].k = "int"
            /\ GivesRating(fetch_func, df[i]["id"].n))
        => /\ df_corrected[i]["vote_average"] = fetch_func.fetch[df[i]["id"].n].f["vote_average"]
           /\ "vote_average" \in DOMAIN validation_results.corrected_rows
           /\ (i - 1) \in Range(validation_results.corrected_rows["vote_average"])

\* the sum, over the validated columns, of the valid cells of df_corrected
RECURSIVE ValidAfterCorrection(_)
ValidAfterCorrection(columns) ==
    IF columns = <<>> THEN 0
    ELSE (IF Head(columns) \in df_columns
          THEN Len(labels(df_corrected, Head(columns), TRUE)) ELSE 0)
         + ValidAfterCorrection(Tail(columns))

ValidatedFields == Cardinality({c \in Range(rules_to_use) : c \in df_columns})

\* C9: the overall_health_score that validate_dataframe returns lies in
\* [0, 100] and equals (sum over the validated fields of the valid count
\* after correction) / (validated fields x rows) x 100, and is 0 when nothing
\* was validated.
C9_HealthScore ==
    Validated =>
        LET score == validation_results.overall_health_score
            cells == ValidatedFields * Len(df)
        IN /\ score.den > 0
           /\ 0 <= score.num
           /\ score.num <= 100 * score.den
           /\ IF cells = 0 THEN score.num = 0
              ELSE score.num * cells = ValidAfterCorrection(rules_to_use) * 100 * score.den

\* a call that corrected some cells and left others invalid
C9_Witness ==
    /\ Validated
    /\ api_corrections > 0
    /\ validation_results.overall_health_score.num > 0
    /\ validation_results.overall_health_score.num
            < 100 * validation_results.overall_health_score.den
    /\ Len(rules_to_use) > 1

\* a call whose rule set names no column of a dataset with rows
C9_WitnessNothingValidated ==
    /\ Validated
    /\ Len(df) > 0
    /\ rules_to_use # <<>>
    /\ ValidatedFields = 0
    /\ validation_results.overall_health_score.num = 0

CallsFor(column) == {i \in DOMAIN fetch_calls : fetch_calls[i].column = column}

\* C10: during a validate_dataframe call the correction source is called at
\* most 10 times per validated field, only for records whose cell failed the
\* field's predicate, and only for fields of the API-enrichable whitelist:
\* never for id, budget or runtime.
C10_CorrectionSourceCalls ==
    /\ \A column \in Range(validation_rule_columns) : Cardinality(CallsFor(column)) <= 10
    /\ \A i \in DOMAIN fetch_calls :
        /\ fetch_calls[i].column \in Range(rules_to_use)
        /\ fetch_calls[i].column \in api_enrichable_fields
        /\ fetch_calls[i].column \notin {"id", "budget", "runtime"}
        /\ ~safe_validate(fetch_calls[i].column,
                          df[fetch_calls[i].idx + 1][fetch_calls[i].column])

\* a call that met more than 10 invalid cells of a whitelisted field and more
\* than 10 invalid cells of runtime and budget, and called the source 10
\* times for the one and never for the others
C10_Witness ==
    /\ Validated
    /\ custom_rules = <<>>
    /\ Len(df) > 10
    /\ Len(validation_results.invalid_rows["vote_count"]) > 10
    /\ Cardinality(CallsFor("vote_count")) = 10
    /\ Len(validation_results.invalid_rows["runtime"]) > 10
    /\ Len(validation_results.invalid_rows["budget"]) > 10
    /\ Len(validation_results.invalid_rows["id"]) = 0
    /\ CallsFor("runtime") = {}
    /\ CallsFor("budget") = {}

\* a call in which rows without id took places among the first 10 invalid cells
C10_WitnessSkipped ==
    /\ Validated
    /\ fetch_func.given
    /\ fallback_enabled
    /\ "vote_average" \in DOMAIN validation_results.invalid_rows
    /\ Len(validation_results.invalid_rows["vote_average"]) > 10
    /\ Cardinality(CallsFor("vote_average")) = 0

(***************************************************************************)
(* SpecChoose: DataValidator._choose_better_value called on its own with   *)
(* every column, current value and API value of the sets below.            *)
(***************************************************************************)
Seven == <<"7">>

ChooseColumns == {"vote_average", "vote_count", "budget", "runtime", "genres", "title"}

ChooseValues ==
    {None, NaN, Num(0), Num(7), Num(90), Str(Abc), Str(Seven), Str(<<>>), List(<<>>),
     List(<<Plain(Drama)>>), List(<<Plain(Drama), Plain(Up)>>)}

InitChoose ==
    /\ NotEnriching
    /\ NotValidating
    /\ args \in [column : ChooseColumns, current_value : ChooseValues,
                 api_value : ChooseValues]
    /\ result = Pending
    /\ NotFetching

\* better_value = self._choose_better_value(column, current_value, api_value)
ChooseBetterValue ==
    /\ args # <<>>
    /\ result = Pending
    /\ result' = choose_better_value(args.column, args.current_value, args.api_value)
    /\ UNCHANGED <<args, fetcher_vars, enrich_vars, validate_vars>>

NextChoose == ChooseBetterValue

SpecChoose == InitChoose /\ [][NextChoose]_vars

\* C11: _choose_better_value never raises and returns one of its two values,
\* also for a numeric column whose current or API value is an unparsable
\* string and for a list column whose current value is a list of several
\* elements.
C11_ChooseNeverFails ==
    result # Pending =>
        /\ ~result.raised
        /\ result.value \in {args.current_value, args.api_value}

(***************************************************************************)
(* SpecFetch: one TMDbFetcher.fetch_movie_details(movie_id) call; each     *)
(* HTTP attempt succeeds, ends in a RequestException (connection error,    *)
(* timeout, HTTP error status) or ends in another exception.               *)
(***************************************************************************)
\* the largest MAX_RETRIES of the runs
MaxRetries == 3

RECURSIVE pow2(_)
pow2(n) == IF n = 0 THEN 1 ELSE 2 * pow2(n - 1)

\* what response.json() may hold
Responses == {GoodMeta, PoorMeta, BadMeta}

InitFetch ==
    /\ NotEnriching
    /\ NotValidating
    /\ args \in [movie_id : {1, 2}]
    /\ result = Pending
    /\ MAX_RETRIES \in 0..MaxRetries
    /\ fetching = "loop"
    /\ attempt = 0
    /\ outcomes = <<>>
    /\ backoffs = <<>>
    /\ rate_waits = 0

\* sleeps after every failed attempt, the last included
backoff_after_every(n, max) == TRUE

\* if attempt < MAX_RETRIES - 1
backoff_after(n, max) == n < max - 1

\* one pass of the retry loop, lines 21-43
FetchAttempt ==
    /\ fetching = "loop"
    /\ attempt < MAX_RETRIES
    /\ \E waited \in BOOLEAN : rate_waits' = rate_waits + (IF waited THEN 1 ELSE 0)
    /\ \E outcome \in {"ok", "request", "other"} :
        /\ outcomes' = Append(outcomes, outcome)
        /\ IF outcome = "ok"
           THEN /\ \E data \in Responses : result' = data
                /\ fetching' = "returned"
                /\ UNCHANGED <<attempt, backoffs>>
           ELSE IF outcome = "request" /\ backoff_after(attempt, MAX_RETRIES)
           THEN /\ backoffs' = Append(backoffs, pow2(attempt))
                /\ attempt' = attempt + 1
                /\ UNCHANGED <<result, fetching>>
           ELSE /\ result' = EmptyDict
                /\ fetching' = "returned"
                /\ UNCHANGED <<attempt, backoffs>>
    /\ UNCHANGED <<args, MAX_RETRIES, enrich_vars, validate_vars>>

\* the loop ends without a return: return {}, line 46
FetchGiveUp ==
    /\ fetching = "loop"
    /\ attempt >= MAX_RETRIES
    /\ result' = EmptyDict
    /\ fetching' = "returned"
    /\ UNCHANGED <<args, MAX_RETRIES, attempt, outcomes, backoffs, rate_waits,
                   enrich_vars, validate_vars>>

NextFetch == FetchAttempt \/ FetchGiveUp

SpecFetch == InitFetch /\ [][NextFetch]_vars

\* C12: fetch_movie_details returns a dict and never raises; an attempt that
\* ends in a RequestException is followed by another attempt as long as fewer
\* than MAX_RETRIES were made; at most MAX_RETRIES HTTP attempts are made;
\* the i-th attempt (from 0) is followed by a sleep of 2^i seconds exactly
\* when another attempt follows it; and a call whose attempts all ended in a
\* RequestException returns {}.
C12_FetchNeverRaises ==
    /\ Len(outcomes) <= MAX_RETRIES
    /\ \A i \in DOMAIN backoffs : backoffs[i] = pow2(i - 1)
    /\ fetching = "loop" => /\ result = Pending
                            /\ Len(backoffs) = Len(outcomes)
                            /\ \A i \in DOMAIN outcomes : outcomes[i] = "request"
    /\ fetching = "returned" =>
        /\ result.k = "dict"
        /\ Len(backoffs) = (IF outcomes = <<>> THEN 0 ELSE Len(outcomes) - 1)
        /\ \A i \in DOMAIN outcomes :
            outcomes[i] = "request" /\ i < MAX_RETRIES => i < Len(outcomes)
        /\ (outcomes = <<>> \/ outcomes[Len(outcomes)] # "ok") => result = EmptyDict

\* a call that used up all its attempts on RequestExceptions
C12_Witness ==
    /\ fetching = "returned"
    /\ MAX_RETRIES = MaxRetries
    /\ Len(outcomes) = MAX_RETRIES
    /\ \A i \in DOMAIN outcomes : outcomes[i] = "request"
    /\ Len(backoffs) = MAX_RETRIES - 1
    /\ result = EmptyDict

\* a call that succeeded after a failed attempt
C12_WitnessRetried ==
    /\ fetching = "returned"
    /\ Len(outcomes) = 2
    /\ outcomes[1] = "request"
    /\ outcomes[2] = "ok"
    /\ backoffs = <<1>>
    /\ result = GoodMeta

\* C13: TMDbFetcher, the client of the engine, takes the calls the engine
\* makes: for a record with missing fields and an id whose HTTP request
\* succeeds, the fetch by id of enrich_movie_row returns the fetched record
\* (and is counted as an API call) instead of ending in a caught error.
C13_ClientTakesEngineCalls ==
    (Iterated /\ tmdb = TMDbFetcher /\ last.input["id"].k = "int"
        /\ ~Complete(last.input))
    => /\ \E i \in 1..Len(last.result.calls) :
            /\ last.result.calls[i] = FetchCall(last.input["id"].n)
            /\ tmdb.fetch[last.input["id"].n].k = "dict"
       /\ last.result.api_calls >= 1

\* C14: a checkpoint file that exists at startup but cannot be decoded makes
\* enrich_dataset fail: the engine is never in its loop, or returned, after
\* load_checkpoint found such a file.
C14_UnreadableCheckpointAborts ==
    ~(pc \in {"loop", "returned", "done"} /\ loaded.exists /\ ~loaded.readable)

\* every step that ends a run without its output (the process is killed,
\* write_csv raises) leaves the checkpoint and progress files as they are
FailureKeepsCheckpoint ==
    [][pc' \in {"new", "failed"} =>
          (checkpoint_file'.exists = checkpoint_file.exists
           /\ checkpoint_file'.enriched_rows = checkpoint_file.enriched_rows
           /\ checkpoint_file'.current_index = checkpoint_file.current_index
           /\ checkpoint_file'.stats = checkpoint_file.stats
           /\ progress_file' = progress_file)]_vars

C15_WitnessFailed ==
    /\ pc = "failed"
    /\ checkpoint_file.exists
    /\ checkpoint_file.current_index = Len(df)
    /\ progress_file.exists

\* C16: after an iteration of enrich_dataset that wrote the periodic checkpoint
\* at row index+1, the progress file holds that index, a completion_percentage
\* of (index+1)/total_rows x 100 rounded to 2 decimals, and the processed,
\* enriched, failed and API-call counters as the checkpoint holds them.
C16_ProgressFileComplete ==
    (pc = "loop" /\ Iterated /\ last.checkpointed) =>
        /\ progress_file.exists
        /\ progress_file.current_index = index
        /\ progress_file.completion_percentage = completion_pct(index, Len(df))
        /\ progress_file.total_processed = checkpoint_file.stats.processed
        /\ progress_file.total_enriched = checkpoint_file.stats.enriched
        /\ progress_file.total_failed = checkpoint_file.stats.failed
        /\ progress_file.api_calls = checkpoint_file.stats.total_api_calls

(***************************************************************************)
(* DataCleaner.clean_text (processors/data_cleaning.py).                   *)
(***************************************************************************)

\* sub in s
contains(s, sub) ==
    \E i \in 1..(Len(s) - Len(sub) + 1) : SubSeq(s, i, i + Len(sub) - 1) = sub

\* s.replace(old, new): every occurrence, leftmost first, in one pass over s
RECURSIVE replace(_, _, _)
replace(s, old, new) ==
    IF Len(s) < Len(old) THEN s
    ELSE IF SubSeq(s, 1, Len(old)) = old
         THEN new \o replace(SubSeq(s, Len(old) + 1, Len(s)), old, new)
         ELSE <<Head(s)>> \o replace(Tail(s), old, new)

\* self._encoding_fixes, in the order of the dict: the entries made of the
\* characters the inputs below are built from
encoding_fixes ==
    << <<(<<"Ã", "©">>), (<<"é">>)>>,
       <<(<<"Â", "©">>), (<<"©">>)>> >>

\* self._html_entities, in the order of the dict
html_entities ==
    << <<(<<"&", "a", "m", "p", ";">>), (<<"&">>)>>,
       <<(<<"&", "l", "t", ";">>), (<<"<">>)>>,
       <<(<<"&", "g", "t", ";">>), (<<">">>)>>,
       <<(<<"&", "q", "u", "o", "t", ";">>), (<<"\"">>)>>,
       <<(<<"&", "#", "3", "9", ";">>), (<<"'">>)>>,
       <<(<<"&", "a", "p", "o", "s", ";">>), (<<"'">>)>>,
       <<(<<"&", "n", "b", "s", "p", ";">>), (<<" ">>)>> >>

\* for bad, good in table.items(): if bad in text: text = text.replace(bad, good)
RECURSIVE replace_each(_, _)
replace_each(text, table) ==
    IF table = <<>> THEN text
    ELSE replace_each(IF contains(text, table[1][1])
                      THEN replace(text, table[1][1], table[1][2])
                      ELSE text,
                      Tail(table))

\* [\x00-\x08\x0B-\x0C\x0E-\x1F\x7F]
IsControl(c) == c = "\f"

\* re.sub(r'[\x00-\x08\x0B-\x0C\x0E-\x1F\x7F]', '', text)
RECURSIVE remove_control(_)
remove_control(s) ==
    IF s = <<>> THEN <<>>
    ELSE IF IsControl(Head(s)) THEN remove_control(Tail(s))
         ELSE <<Head(s)>> \o remove_control(Tail(s))

\* re.search(r'\s{2,}', text)
has_whitespace_run(s) == \E i \in 1..(Len(s) - 1) : IsSpace(s[i]) /\ IsSpace(s[i + 1])

\* re.sub(r'\s+', ' ', text)
RECURSIVE collapse_whitespace(_)
collapse_whitespace(s) ==
    IF s = <<>> THEN <<>>
    ELSE IF IsSpace(Head(s)) THEN <<" ">> \o collapse_whitespace(lstrip(s))
         ELSE <<Head(s)>> \o collapse_whitespace(Tail(s))

\* the html entities decoded once
decode_entities(s) == replace_each(s, html_entities)

\* DataCleaner.clean_text for a text that is null, NaN, a number or a string
clean_text(text) ==
    IF \/ ~Truthy(text)
       \/ isna(text)
       \/ strip(str(text)) = <<>>
       \/ lower(str(text)) = <<"n", "a", "n">>
    THEN None
    ELSE With(remove_control(replace_each(str(text), encoding_fixes)), LAMBDA fixed :
         With(strip(IF has_whitespace_run(fixed) THEN collapse_whitespace(fixed) ELSE fixed),
              LAMBDA stripped :
         With(decode_entities(stripped), LAMBDA decoded :
              IF decoded # <<>> THEN Str(decoded) ELSE None)))

MaxFragments == 3

Fragments ==
    { <<"&", "a", "m", "p", ";">>, <<"a", "m", "p", ";">>,
      <<"&", "n", "b", "s", "p", ";">>, <<"&", "l", "t", ";">>, <<"l", "t", ";">>,
      <<" ">>, <<"\t">>, <<"\f">>, <<"a">>, <<"Ã">>, <<"Â">>, <<"©">> }

RECURSIVE Texts(_)
Texts(n) ==
    IF n = 0 THEN {<<>>}
    ELSE Texts(n - 1) \cup {t \o f : t \in Texts(n - 1), f \in Fragments}

InitClean ==
    /\ NotEnriching
    /\ NotValidating
    /\ args \in [text : {None, NaN, Num(0), Num(7)} \cup {Str(t) : t \in Texts(MaxFragments)}]
    /\ result = Pending
    /\ NotFetching

\* once = self.clean_text(text); twice = self.clean_text(once)
CleanText ==
    /\ args # <<>>
    /\ result = Pending
    /\ \E once \in {clean_text(args.text)} :
           result' = [pending |-> FALSE, once |-> once, twice |-> clean_text(once)]
    /\ UNCHANGED <<args, fetcher_vars, enrich_vars, validate_vars>>

NextClean == CleanText

SpecClean == InitClean /\ [][NextClean]_vars

\* C17: clean_text is idempotent: cleaning the result of clean_text again
\* gives the same result, for every text, also one with a nested HTML entity
\* ("&amp;amp;") or an entity that decodes to whitespace ("&nbsp;").
C17_CleanTextIdempotent ==
    result # Pending => result.twice = result.once

(***************************************************************************)
(* DataCleaner.standardize_date_format (processors/data_cleaning.py).      *)
(***************************************************************************)

\* a format of datetime.strptime: directives "%Y", "%m", "%d" and literals
IsDirective(t) == t \in {"%Y", "%m", "%d"}

\* the widths a directive may take, in the order its alternatives are tried:
\* %Y is \d\d\d\d; %m is 1[0-2]|0[1-9]|[1-9]; %d is 3[0-1]|[1-2]\d|0[1-9]|[1-9]
widths(t) == IF t = "%Y" THEN <<4>> ELSE <<2, 1>>

\* the digits a directive accepts at a width
accepts(t, digits) ==
    /\ isdigit(digits)
    /\ CASE t = "%Y" -> Len(digits) = 4
         [] t = "%m" -> IF Len(digits) = 2 THEN DigitsToNat(digits) \in 1..12
                        ELSE DigitsToNat(digits) \in 1..9
         [] OTHER    -> IF Len(digits) = 2 THEN DigitsToNat(digits) \in 1..31
                        ELSE DigitsToNat(digits) \in 1..9

NoMatch == [ok |-> FALSE, rest |-> <<>>, Y |-> 1900, m |-> 1, d |-> 1]

\* re.match of the format's regular expression at the start of s: the first
\* alternative of a directive after which the rest of the format matches
RECURSIVE match(_, _)
RECURSIVE match_widths(_, _, _)
match(s, fmt) ==
    IF fmt = <<>> THEN [ok |-> TRUE, rest |-> s, Y |-> 1900, m |-> 1, d |-> 1]
    ELSE IF IsDirective(Head(fmt)) THEN match_widths(s, fmt, widths(Head(fmt)))
    ELSE IF s # <<>> /\ Head(s) = Head(fmt) THEN match(Tail(s), Tail(fmt))
    ELSE NoMatch

match_widths(s, fmt, ws) ==
    IF ws = <<>> THEN NoMatch
    ELSE IF Len(s) >= Head(ws) /\ accepts(Head(fmt), SubSeq(s, 1, Head(ws)))
         THEN With(match(SubSeq(s, Head(ws) + 1, Len(s)), Tail(fmt)), LAMBDA r :
                  IF r.ok
                  THEN With(DigitsToNat(SubSeq(s, 1, Head(ws))), LAMBDA n :
                           CASE Head(fmt) = "%Y" -> [r EXCEPT !.Y = n]
                             [] Head(fmt) = "%m" -> [r EXCEPT !.m = n]
                             [] OTHER            -> [r EXCEPT !.d = n])
                  ELSE match_widths(s, fmt, Tail(ws)))
         ELSE match_widths(s, fmt, Tail(ws))

is_leap(year) == year % 4 = 0 /\ (year % 100 # 0 \/ year % 400 = 0)

days_in_month(year, month) ==
    IF month = 2 THEN (IF is_leap(year) THEN 29 ELSE 28)
    ELSE IF month \in {4, 6, 9, 11} THEN 30 ELSE 31

\* datetime.strptime(date_str, fmt): ok is FALSE where it raises ValueError
\* (no match, unconverted data remains, or a day the month does not have)
strptime(s, fmt) ==
    With(match(s, fmt), LAMBDA r :
        IF r.ok /\ r.rest = <<>> /\ r.Y >= 1 /\ r.d <= days_in_month(r.Y, r.m)
        THEN [ok |-> TRUE, Y |-> r.Y, m |-> r.m, d |-> r.d]
        ELSE [ok |-> FALSE, Y |-> 1900, m |-> 1, d |-> 1])

two_digits(n) == IF n < 10 THEN <<"0">> \o NatToStr(n) ELSE NatToStr(n)

\* date_obj.strftime("%Y-%m-%d"), for a year of four digits
strftime(date) ==
    NatToStr(date.Y) \o <<"-">> \o two_digits(date.m) \o <<"-">> \o two_digits(date.d)

\* formats: supported formats in priority order
formats ==
    << <<"%Y", "-", "%m", "-", "%d">>, <<"%d", "/", "%m", "/", "%Y">>,
       <<"%m", "/", "%d", "/", "%Y">>, <<"%Y", "/", "%m", "/", "%d">>,
       <<"%Y">>, <<"%Y", "-", "%m">>,
       <<"%d", "-", "%m", "-", "%Y">>, <<"%m", "-", "%d", "-", "%Y">> >>

\* for fmt in formats: ...; return None
RECURSIVE try_formats(_, _)
try_formats(date_str, fmts) ==
    IF fmts = <<>> THEN None
    ELSE IF Head(fmts) = <<"%Y">> /\ Len(date_str) = 4
         THEN Str(date_str \o <<"-", "0", "1", "-", "0", "1">>)
    ELSE IF Head(fmts) = <<"%Y", "-", "%m">> /\ Len(date_str) = 7
         THEN Str(date_str \o <<"-", "0", "1">>)
    ELSE With(strptime(date_str, Head(fmts)), LAMBDA date_obj :
             IF date_obj.ok THEN Str(strftime(date_obj))
             ELSE try_formats(date_str, Tail(fmts)))

\* DataCleaner.standardize_date_format for a date that is null, NaN, a number
\* or a string
standardize_date_format(date_str) ==
    IF ~Truthy(date_str) \/ isna(date_str) \/ strip(str(date_str)) = <<>> THEN None
    ELSE With(strip(str(date_str)), LAMBDA stripped :
             IF lower(stripped) = <<"n", "a", "n">> THEN None
             ELSE try_formats(stripped, formats))

DateParts ==
    { <<"2", "0", "2", "0">>, <<"2", "0", "2", "1">>, <<"1", "5">>, <<"0", "3">>,
      <<"3">>, <<"1", "2">>, <<"3", "1">>, <<"0", "2">>, <<"2", "9">>, <<"1", "3">> }

Garbage == <<"g", "a", "r", "b", "a", "g", "e">>

DateStrings ==
    DateParts
    \cup {a \o <<sep>> \o b : a \in DateParts, b \in DateParts, sep \in {"-", "/"}}
    \cup {a \o <<sep>> \o b \o <<sep>> \o c :
              a \in DateParts, b \in DateParts, c \in DateParts, sep \in {"-", "/"}}
    \cup {Garbage, <<"a", "b", "c", "d">>, <<"n", "a", "n">>, Abc, <<>>, <<" ">>,
          <<" ", "2", "0", "2", "1", " ">>, <<"2", "0", "2", "x">>,
          <<"2", "0", "2", "0", "-", "x", "y">>}

InitDate ==
    /\ NotEnriching
    /\ NotValidating
    /\ args \in [date_str : {None, NaN, Num(0), Num(2021)} \cup {Str(s) : s \in DateStrings}]
    /\ result = Pending
    /\ NotFetching

\* value = self.standardize_date_format(date_str)
StandardizeDateFormat ==
    /\ args # <<>>
    /\ result = Pending
    /\ result' = [pending |-> FALSE, value |-> standardize_date_format(args.date_str)]
    /\ UNCHANGED <<args, fetcher_vars, enrich_vars, validate_vars>>

NextDate == StandardizeDateFormat

SpecDate == InitDate /\ [][NextDate]_vars

\* a string of the form YYYY-MM-DD
IsIsoDate(s) ==
    /\ Len(s) = 10
    /\ isdigit(SubSeq(s, 1, 4)) /\ s[5] = "-"
    /\ isdigit(SubSeq(s, 6, 7)) /\ s[8] = "-"
    /\ isdigit(SubSeq(s, 9, 10))

DayFirst == <<"%d", "/", "%m", "/", "%Y">>

\* C18: standardize_date_format returns null or a YYYY-MM-DD string; a string
\* that is not numeric and has length 4 or 7 (such as "garbage") gives null; a
\* bare year YYYY gives YYYY-01-01; YYYY-MM gives YYYY-MM-01; a string that
\* reads as DD/MM/YYYY is taken day first.
C18_DateStandardized ==
    (result # Pending /\ args.date_str.k = "str") =>
        With(strip(args.date_str.s), LAMBDA s :
            /\ result.value # None => IsIsoDate(result.value.s)
            /\ (Len(s) \in {4, 7} /\ \E i \in 1..Len(s) : ~IsDigit(s[i]) /\ s[i] # "-")
                   => result.value = None
            /\ (Len(s) = 4 /\ isdigit(s))
                   => result.value = Str(s \o <<"-", "0", "1", "-", "0", "1">>)
            /\ (Len(s) = 7 /\ strptime(s, <<"%Y", "-", "%m">>).ok)
                   => result.value = Str(s \o <<"-", "0", "1">>)
            /\ strptime(s, DayFirst).ok
                   => result.value = Str(strftime(strptime(s, DayFirst))))

(***************************************************************************)
(* DataCleaner.clean_list_column (processors/data_cleaning.py).            *)
(***************************************************************************)

\* [self.clean_text(str(item)) for item in items if self.clean_text(str(item))]
\* for items that are strings
RECURSIVE cleaned_items(_)
cleaned_items(items) ==
    IF items = <<>> THEN <<>>
    ELSE With(clean_text(Str(Head(items))), LAMBDA cleaned :
             IF Truthy(cleaned) THEN <<cleaned.s>> \o cleaned_items(Tail(items))
             ELSE cleaned_items(Tail(items)))

\* list(dict.fromkeys(items)): duplicates removed, first-seen order kept
RECURSIVE dict_fromkeys(_)
dict_fromkeys(items) ==
    IF items = <<>> THEN <<>>
    ELSE With(dict_fromkeys(SubSeq(items, 1, Len(items) - 1)), LAMBDA firsts :
             IF items[Len(items)] \in Range(firsts) THEN firsts
             ELSE Append(firsts, items[Len(items)]))

\* s.strip('"\'')
RECURSIVE strip_quotes(_)
strip_quotes(s) ==
    IF s # <<>> /\ Head(s) \in {"\"", "'"} THEN strip_quotes(Tail(s))
    ELSE IF s # <<>> /\ s[Len(s)] \in {"\"", "'"} THEN strip_quotes(SubSeq(s, 1, Len(s) - 1))
    ELSE s

\* one element of a list literal: a quoted string without escapes or a decimal
\* integer; ok is FALSE for anything ast.literal_eval rejects
literal(part) ==
    IF /\ Len(part) >= 2
       /\ Head(part) \in {"\"", "'"}
       /\ part[Len(part)] = Head(part)
       /\ \A i \in 2..(Len(part) - 1) : part[i] \notin {Head(part), "\\"}
    THEN [ok |-> TRUE, item |-> SubSeq(part, 2, Len(part) - 1)]
    ELSE IF isdigit(part) /\ (Len(part) = 1 \/ Head(part) # "0")
    THEN [ok |-> TRUE, item |-> part]
    ELSE [ok |-> FALSE, item |-> <<>>]

\* ast.literal_eval(cell_str) for a string that starts with '[' and ends with
\* ']' and has no comma or bracket inside an element: ok is FALSE where it
\* raises ValueError or SyntaxError; items holds str(item) of each element
literal_eval(cell_str) ==
    IF Len(cell_str) < 2 THEN [ok |-> FALSE, items |-> <<>>]
    ELSE With(SubSeq(cell_str, 2, Len(cell_str) - 1), LAMBDA content :
         IF strip(content) = <<>> THEN [ok |-> TRUE, items |-> <<>>]
         ELSE With(split(content, ","), LAMBDA all_parts :
              With(IF Len(all_parts) >= 2 /\ strip(all_parts[Len(all_parts)]) = <<>>
                   THEN SubSeq(all_parts, 1, Len(all_parts) - 1) ELSE all_parts,
                   LAMBDA parts :
                   IF \A i \in 1..Len(parts) : literal(strip(parts[i])).ok
                   THEN [ok |-> TRUE,
                         items |-> [i \in 1..Len(parts) |-> literal(strip(parts[i])).item]]
                   ELSE [ok |-> FALSE, items |-> <<>>])))

\* for item in cell_str.split(','): cleaned = self.clean_text(item.strip().strip('"\''))
comma_separated(cell_str) ==
    With(split(cell_str, ","), LAMBDA parts :
        cleaned_items([i \in 1..Len(parts) |-> strip_quotes(strip(parts[i]))]))

\* the try block of clean_list_column: error is TRUE where it raises
clean_list_try(cell) ==
    IF cell.k = "list"
    THEN \* if pd.isna(cell): the truth value of an array of several elements
         \* raises ValueError; an empty list gives [] whether it raises or not
         IF Len(cell.l) >= 2 THEN [error |-> TRUE, value |-> <<>>]
         ELSE [error |-> FALSE,
               value |-> cleaned_items([i \in 1..Len(cell.l) |-> cell.l[i].name])]
    ELSE IF isna(cell) THEN [error |-> FALSE, value |-> <<>>]
    ELSE With(strip(str(cell)), LAMBDA cell_str :
         IF cell_str = <<>> \/ lower(cell_str) \in {<<"n", "a", "n">>, <<"n", "o", "n", "e">>}
         THEN [error |-> FALSE, value |-> <<>>]
         ELSE With(IF Head(cell_str) = "[" /\ cell_str[Len(cell_str)] = "]"
                   THEN literal_eval(cell_str) ELSE [ok |-> FALSE, items |-> <<>>],
                   LAMBDA parsed :
                   IF parsed.ok
                   THEN [error |-> FALSE, value |-> dict_fromkeys(cleaned_items(parsed.items))]
                   ELSE [error |-> FALSE, value |-> dict_fromkeys(comma_separated(cell_str))]))

\* DataCleaner.clean_list_column for a cell that is null, NaN, a number, a
\* string or a list of strings: except Exception returns []
clean_list_column(cell) ==
    With(clean_list_try(cell), LAMBDA tried_cell :
        [pending |-> FALSE, raised |-> FALSE,
         value |-> IF tried_cell.error THEN <<>> ELSE tried_cell.value])

MaxElements == 3

Action == <<"A", "c", "t", "i", "o", "n">>

Elements == {Action, Drama, Seven, <<" ">>}

quoted(items) == [i \in 1..Len(items) |-> <<"'">> \o items[i] \o <<"'">>]

ListCells ==
    UNION { { List([i \in 1..Len(q) |-> Plain(q[i])]),
              Str(join(<<",", " ">>, q)),
              Str(<<"[">> \o join(<<",", " ">>, quoted(q)) \o <<"]">>),
              Str(<<"[">> \o join(<<",">>, q) \o <<"]">>) } :
            q \in SeqsUpTo(Elements, MaxElements) }
    \cup {None, NaN, Num(7), Str(<<"n", "a", "n">>), Str(<<"N", "o", "n", "e">>),
          Str(<<"[">>), Str(<<"[", "'", "U", "p", "'", ",", "]">>)}

InitList ==
    /\ NotEnriching
    /\ NotValidating
    /\ args \in [cell : ListCells]
    /\ result = Pending
    /\ NotFetching

\* result = self.clean_list_column(cell)
CleanListColumn ==
    /\ args # <<>>
    /\ result = Pending
    /\ result' = clean_list_column(args.cell)
    /\ UNCHANGED <<args, fetcher_vars, enrich_vars, validate_vars>>

NextList == CleanListColumn

SpecList == InitList /\ [][NextList]_vars

\* the cell is null, blank, "nan" or "none"
IsBlankCell(cell) ==
    \/ isna(cell)
    \/ cell.k = "str" /\ (strip(cell.s) = <<>>
                          \/ lower(strip(cell.s)) \in {<<"n", "a", "n">>, <<"n", "o", "n", "e">>})

\* C19: clean_list_column never raises; its result has no duplicates; for an
\* in-memory list it is the cleaned non-empty elements, duplicates removed,
\* in first-seen order (["Action","Drama","Action"] gives ["Action","Drama"]);
\* and it is empty only for a null, blank, "nan" or "none" cell.
C19_ListCleaned ==
    result # Pending =>
        /\ ~result.raised
        /\ \A i, j \in 1..Len(result.value) : result.value[i] = result.value[j] => i = j
        /\ args.cell.k = "list" =>
               result.value =
                   dict_fromkeys(cleaned_items([i \in 1..Len(args.cell.l) |-> args.cell.l[i].name]))
        /\ result.value = <<>> => IsBlankCell(args.cell)

(***************************************************************************)
(* DataFrameProcessor.remove_duplicates (processors/dataframe_ops.py), as  *)
(* MovieDataProcessor.clean_dataframe_comprehensive calls it: on the       *)
(* column 'id', keep='first'.  A dataframe is its rows with their index    *)
(* labels; an id is a number or NaN.                                       *)
(***************************************************************************)

\* a row whose id appears in a later row
duplicated_last(rows, i) == \E j \in (i + 1)..Len(rows) : rows[j].id = rows[i].id

\* df.duplicated(subset=['id'], keep='first'): a row whose id appears in an
\* earlier row; NaN ids count as equal
duplicated(rows, i) == \E j \in 1..(i - 1) : rows[j].id = rows[i].id

\* df.drop_duplicates(subset=['id'], keep='first'): the index labels kept
RECURSIVE kept_from(_, _)
kept_from(rows, i) ==
    IF i > Len(rows) THEN <<>>
    ELSE IF duplicated(rows, i) THEN kept_from(rows, i + 1)
         ELSE <<i>> \o kept_from(rows, i + 1)

drop_duplicates(rows) ==
    With(kept_from(rows, 1), LAMBDA kept :
        [index |-> kept, rows |-> [k \in 1..Len(kept) |-> rows[kept[k]]]])

\* DataFrameProcessor.remove_duplicates(df, ['id']) with the counter
\* processing_stats['duplicates_removed'] before the call
remove_duplicates(rows, duplicates_removed_before) ==
    With(drop_duplicates(rows), LAMBDA df_clean :
        [pending |-> FALSE,
         index |-> df_clean.index,
         df |-> df_clean.rows,
         duplicates_removed |-> duplicates_removed_before + (Len(rows) - Len(df_clean.rows))])

MaxDuplicateRows == 3

MaxRemovedBefore == 1

IdRows == [id : {Num(1), Num(2), NaN}, title : {Abc, Up}]

InitDuplicates ==
    /\ NotEnriching
    /\ NotValidating
    /\ args \in [df : SeqsUpTo(IdRows, MaxDuplicateRows),
                 duplicates_removed : 0..MaxRemovedBefore]
    /\ result = Pending
    /\ NotFetching

\* cleaned_df = self.dataframe_processor.remove_duplicates(cleaned_df, ['id'])
RemoveDuplicates ==
    /\ args # <<>>
    /\ result = Pending
    /\ result' = remove_duplicates(args.df, args.duplicates_removed)
    /\ UNCHANGED <<args, fetcher_vars, enrich_vars, validate_vars>>

NextDuplicates == RemoveDuplicates

SpecDuplicates == InitDuplicates /\ [][NextDuplicates]_vars

\* C20: after remove_duplicates on the id column no two rows share an id,
\* every id of the input is kept with the row of its first occurrence, the
\* kept rows are in their input order, and the number of rows dropped is the
\* increase of the duplicates_removed counter.
C20_UniqueIdsFirstKept ==
    result # Pending =>
        /\ \A i, j \in 1..Len(result.df) : result.df[i].id = result.df[j].id => i = j
        /\ {result.df[i].id : i \in 1..Len(result.df)} = {args.df[i].id : i \in 1..Len(args.df)}
        /\ Len(result.index) = Len(result.df)
        /\ \A k \in 1..Len(result.df) :
               /\ result.index[k] \in 1..Len(args.df)
               /\ result.df[k] = args.df[result.index[k]]
               /\ \A j \in 1..(result.index[k] - 1) : args.df[j].id # result.df[k].id
        /\ \A k \in 1..(Len(result.index) - 1) : result.index[k] < result.index[k + 1]
        /\ Len(args.df) - Len(result.df) = result.duplicates_removed - args.duplicates_removed

\* a dataset of three rows whose first and last rows share an id and differ in
\* their titles: the last row is dropped
C20_Witness ==
    /\ result # Pending
    /\ Len(args.df) = 3
    /\ args.df[1].id = args.df[3].id
    /\ args.df[1].title # args.df[3].title
    /\ result.index = <<1, 2>>
    /\ result.duplicates_removed = args.duplicates_removed + 1

\* two rows with a NaN id: one is kept
C20_WitnessNaN ==
    /\ result # Pending
    /\ Len(args.df) = 2
    /\ args.df[1].id = NaN
    /\ args.df[2].id = NaN
    /\ Len(result.df) = 1

(***************************************************************************)
(* DataValidator.validate_list_field (utils/validators.py), the validator  *)
(* of the list columns that DataFrameProcessor.clean_dataframe leaves as   *)
(* in-memory lists.                                                        *)
(***************************************************************************)

\* `field is None or pd.isna(field)`: "raise" where taking the truth value of
\* pd.isna(field) raises ValueError.  For a list pd.isna gives an array: of
\* several elements its truth value raises; of no element it raises or is
\* False, as the numpy of the build has it (empty_raises).
isna_truth(field, empty_raises) ==
    IF field.k = "list"
    THEN IF Len(field.l) >= 2 THEN "raise"
         ELSE IF Len(field.l) = 0 THEN (IF empty_raises THEN "raise" ELSE "false")
         ELSE "false"
    ELSE IF isna(field) THEN "true" ELSE "false"

\* DataValidator.validate_list_field: the verdict and what the call adds to
\* validation_stats
validate_list_field(field, empty_raises) ==
    IF isna_truth(field, empty_raises) = "raise"
    THEN [pending |-> FALSE, value |-> FALSE,
          total_validations |-> 1, successful_validations |-> 0, failed_validations |-> 1]
    ELSE [pending |-> FALSE, value |-> TRUE,
          total_validations |-> 1, successful_validations |-> 1, failed_validations |-> 0]

ListFields_in_memory ==
    {List([i \in 1..Len(q) |-> Plain(q[i])]) : q \in SeqsUpTo(Elements, MaxElements)}

InitListField ==
    /\ NotEnriching
    /\ NotValidating
    /\ args \in [field : ListFields_in_memory
                         \cup {None, NaN, Num(7), Str(<<>>), Str(<<" ">>), Str(Abc),
                               Str(<<"n", "a", "n">>), Str(<<"[", "]">>)},
                 empty_raises : BOOLEAN]
    /\ result = Pending
    /\ NotFetching

\* self._safe_validate(self.validate_list_field, value, column)
ValidateListField ==
    /\ args # <<>>
    /\ result = Pending
    /\ result' = validate_list_field(args.field, args.empty_raises)
    /\ UNCHANGED <<args, fetcher_vars, enrich_vars, validate_vars>>

NextListField == ValidateListField

SpecListField == InitListField /\ [][NextListField]_vars

\* C21: validate_list_field returns true for every value: null, empty text,
\* any string, and any in-memory list of any length, also one of two or more
\* elements.
C21_ListFieldAlwaysValid ==
    result # Pending => result.value

(***************************************************************************)
(* The merge of enrich_movie_row, field by field (one-row calls).          *)
(***************************************************************************)

\* tmdb_data as the fetches of the last call left it: what the last fetch
\* that did not raise returned, Raise when tmdb_data stayed None
TmdbData(r) ==
    LET fetched == {i \in 1..Len(r.calls) :
                        r.calls[i].op = "fetch" /\ tmdb.fetch[r.calls[i].id].k # "raise"}
    IN IF fetched = {} THEN Raise
       ELSE tmdb.fetch[r.calls[CHOOSE i \in fetched : \A j \in fetched : j <= i].id]

\* the last call went through the merge loop without raising
Merged == Iterated /\ ~last.result.raised /\ HasData(TmdbData(last.result))

\* C22: a missing numeric field (budget, revenue, runtime, vote_count,
\* popularity) is filled only from a non-zero metadata value: a metadata value
\* of 0 writes nothing and does not mark the record enriched.
C22_NumericZeroNotCopied ==
    Merged =>
        /\ \A f \in NumericFields :
               TmdbData(last.result).f[f] = Num(0) => f \notin last.result.written
        /\ last.result.was_enriched =>
               \E f \in last.result.written :
                   ~(f \in NumericFields /\ TmdbData(last.result).f[f] = Num(0))

WriterJobs ==
    { <<"W", "r", "i", "t", "e", "r">>, <<"S", "c", "r", "e", "e", "n", "p", "l", "a", "y">>,
      <<"S", "t", "o", "r", "y">>, <<"N", "o", "v", "e", "l">>,
      <<"A", "d", "a", "p", "t", "a", "t", "i", "o", "n">> }

\* the loop of get_writers_from_credits: the names of the crew members with a
\* writer job, each once
RECURSIVE writers_of(_, _)
writers_of(crew, writers) ==
    IF crew = <<>> THEN writers
    ELSE With(Head(crew), LAMBDA crew_member :
             IF /\ \E writer_job \in WriterJobs : contains(crew_member.job, writer_job)
                /\ crew_member.name # <<>>
                /\ crew_member.name \notin Range(writers)
             THEN writers_of(Tail(crew), Append(writers, crew_member.name))
             ELSE writers_of(Tail(crew), writers))

\* get_writers_from_credits(credits_data): ', '.join(writers[:5]), <<>> for None
get_writers_from_credits(has_credits, crew) ==
    IF ~has_credits THEN <<>>
    ELSE With(writers_of(crew, <<>>), LAMBDA writers :
             join(CommaSpace, SubSeq(writers, 1, IF Len(writers) < 5 THEN Len(writers) ELSE 5)))

\* C23: when the writers field of a record is missing and the fetched
\* metadata carries credits with writers, enrich_movie_row fills the field
\* with the first five writers' names in external order without duplicates,
\* and the record is marked enriched.
C23_WritersFilled ==
    (/\ Merged
     /\ is_field_missing(last.input["writers"], "writers")
     /\ get_writers_from_credits(TmdbData(last.result).has_credits,
                                 TmdbData(last.result).crew) # <<>>)
    => /\ "writers" \in last.result.written
       /\ last.result.row["writers"] =
              Str(get_writers_from_credits(TmdbData(last.result).has_credits,
                                           TmdbData(last.result).crew))
       /\ last.result.was_enriched

\* the items of a sequence, each at its first position
RECURSIVE FirstSeen(_)
FirstSeen(items) ==
    IF items = <<>> THEN <<>>
    ELSE With(FirstSeen(SubSeq(items, 1, Len(items) - 1)), LAMBDA firsts :
             IF items[Len(items)] \in Range(firsts) THEN firsts
             ELSE Append(firsts, items[Len(items)]))

\* C24: a missing list field (genres, keywords, production_companies,
\* production_countries, spoken_languages) is filled with the names of the
\* external objects, comma-joined in external order, every name once, at its
\* first position.
C24_ListNamesOnce ==
    Merged =>
        \A f \in ListFields :
            (/\ f \in last.result.written
             /\ TmdbData(last.result).f[f].k = "list"
             /\ \A i \in 1..Len(TmdbData(last.result).f[f].l) : TmdbData(last.result).f[f].l[i].d)
            => last.result.row[f] =
                   Str(join(CommaSpace, FirstSeen(names_of(TmdbData(last.result).f[f].l))))

(***************************************************************************)
(* ModifiedDataEnrichment.is_field_missing as a function of (value, field). *)
(***************************************************************************)

UpperChar(c) ==
    IF \E i \in 1..26 : Lower[i] = c THEN Upper[CHOOSE i \in 1..26 : Lower[i] = c] ELSE c

\* the letter-case variants of a lower-case text: itself, capitalised, upper case
CaseVariants(s) ==
    {s, [i \in 1..Len(s) |-> UpperChar(s[i])],
     [i \in 1..Len(s) |-> IF i = 1 THEN UpperChar(s[i]) ELSE s[i]]}

Sentinels ==
    { <<"n", "a", "n">>, <<"n", "u", "l", "l">>, <<"n", "o", "n", "e">>,
      <<"u", "n", "k", "n", "o", "w", "n">>, <<"n", "/", "a">> }

MissingValues ==
    {None, NaN, Num(0), Num(7), Str(<<>>), Str(<<" ">>), Str(<<"0">>), Str(Abc), Str(Up),
     Str(<<"[", "]">>), Str(<<"f", "a", "l", "s", "e">>)}
    \cup UNION {{Str(v), Str(<<" ">> \o v \o <<" ">>)} : v \in UNION {CaseVariants(s) : s \in Sentinels}}

MissingFieldNames == TextFields \cup {"budget", "vote_average", "genres", "adult", "id"}

InitMissing ==
    /\ NotEnriching
    /\ NotValidating
    /\ args \in [value : MissingValues, field_name : MissingFieldNames]
    /\ result = Pending
    /\ NotFetching

\* self.is_field_missing(value, field), called twice on the same pair
IsFieldMissing ==
    /\ args # <<>>
    /\ result = Pending
    /\ result' = [pending |-> FALSE,
                  value |-> is_field_missing(args.value, args.field_name),
                  again |-> is_field_missing(args.value, args.field_name)]
    /\ UNCHANGED <<args, fetcher_vars, enrich_vars, validate_vars>>

NextMissing == IsFieldMissing

SpecMissing == InitMissing /\ [][NextMissing]_vars

\* C25: for a text field (title, director, writers, cast) is_field_missing
\* is true when the value is null, blank after trimming, or equal in any
\* letter case to one of "nan", "null", "none", "unknown", "n/a"; and a
\* second call on the same (value, field) gives the same verdict.
C25_TextSentinelsMissing ==
    result # Pending =>
        /\ result.again = result.value
        /\ (/\ args.field_name \in TextFields
            /\ \/ isna(args.value)
               \/ args.value.k = "str" /\ (strip(args.value.s) = <<>>
                                           \/ lower(strip(args.value.s)) \in Sentinels))
           => result.value

(***************************************************************************)
(* ModifiedDataEnrichment.extract_release_year as a function of the date.  *)
(***************************************************************************)
YearDates ==
    {None, NaN, Num(0), Num(2021)} \cup {Str(s) : s \in DateStrings}

InitYear ==
    /\ NotEnriching
    /\ NotValidating
    /\ args \in [release_date : YearDates]
    /\ result = Pending
    /\ NotFetching

\* release_year = self.extract_release_year(release_date)
ExtractReleaseYear ==
    /\ args # <<>>
    /\ result = Pending
    /\ result' = [pending |-> FALSE, value |-> extract_release_year(args.release_date)]
    /\ UNCHANGED <<args, fetcher_vars, enrich_vars, validate_vars>>

NextYear == ExtractReleaseYear

SpecYear == InitYear /\ [][NextYear]_vars

\* the accepted formats in order: YYYY-MM-DD, DD/MM/YYYY, MM/DD/YYYY,
\* YYYY/MM/DD, YYYY
AcceptedFormats == SubSeq(formats, 1, 5)

\* the year of the first accepted format that parses the text, None if none does
RECURSIVE YearOf(_, _)
YearOf(s, fmts) ==
    IF fmts = <<>> THEN None
    ELSE IF strptime(s, Head(fmts)).ok THEN Num(strptime(s, Head(fmts)).Y)
    ELSE YearOf(s, Tail(fmts))

\* C26: extract_release_year returns the year of a release_date in one of the
\* formats YYYY-MM-DD, DD/MM/YYYY, MM/DD/YYYY, YYYY/MM/DD and YYYY (2020 for
\* "2020/03/15"), and None for every other input.
C26_YearExtracted ==
    (result # Pending /\ args.release_date.k = "str") =>
        result.value = YearOf(strip(args.release_date.s), AcceptedFormats)

(***************************************************************************)
(* enrich_dataset over a whole dataset: a fresh run is one that was never  *)
(* killed and found no checkpoint.                                         *)
(***************************************************************************)
Fresh == restarts = 0 /\ ~loaded.exists

\* C27: a fresh run of enrich_dataset over N rows returns exactly N rows, the
\* i-th output row being the i-th input row as enrich_movie_row returned it
\* (or the input row itself where processing failed); no input row appears
\* twice, also not a row on a checkpoint boundary.
C27_OneOutputRowPerInputRow ==
    (Fresh /\ pc = "returned") =>
        /\ Len(enriched_rows) = Len(df)
        /\ \A i \in 1..Len(df) :
               i <= Len(enriched_rows) =>
                   enriched_rows[i] \in {df[i], enrich_movie_row(tmdb, df[i]).row}

\* C28: in a fresh run a checkpoint is written exactly when the number of rows
\* processed reaches a multiple of checkpoint_interval, and the checkpoint
\* written is self-consistent: its current_index is the number of rows
\* processed and it stores as many output rows as its current_index, also at
\* the second and later checkpoints.
C28_CheckpointConsistent ==
    (Fresh /\ pc = "loop" /\ Iterated) =>
        /\ last.checkpointed <=> index % checkpoint_interval = 0
        /\ last.checkpointed =>
               /\ checkpoint_file.exists
               /\ checkpoint_file.current_index = index
               /\ checkpoint_file.stats.processed = index
               /\ Len(checkpoint_file.enriched_rows) = checkpoint_file.current_index

\* C29: at every point of a fresh run enriched + failed <= processed, and a
\* record counted as failed is one whose processing raised, never one
\* counted as enriched.
C29_EnrichedOrFailed ==
    Fresh =>
        /\ enrichment_stats.enriched + enrichment_stats.failed <= enrichment_stats.processed
        /\ (Iterated /\ last.handled) => (last.result.raised /\ ~last.result.was_enriched)


(***************************************************************************)
(* The effect of validate_dataframe on the dataset it is given and on the  *)
(* corrected dataset it returns.                                           *)
(***************************************************************************)
Copied == step \in {"columns", "fallback", "returned"}

\* the cells in which the corrected dataset differs from the input
ChangedCells ==
    {cell \in (1..Len(df)) \X df_columns : df_corrected[cell[1]][cell[2]] # df[cell[1]][cell[2]]}

\* the validated columns whose pass of the loop over rules_to_use is over
ColumnsDone ==
    {rules_to_use[i] : i \in {j \in DOMAIN rules_to_use : j < column_no}}
        \cap DOMAIN validation_results.validation_summary

CorrectedCount(column) ==
    IF column \in DOMAIN validation_results.corrected_rows
    THEN Len(validation_results.corrected_rows[column]) ELSE 0

FrameEffect ==
    Copied =>
        /\ Len(df_corrected) = Len(df)
        /\ \A cell \in ChangedCells :
            /\ cell[2] \in api_enrichable_fields
            /\ ~safe_validate(cell[2], df[cell[1]][cell[2]])
            /\ safe_validate(cell[2], df_corrected[cell[1]][cell[2]])
        /\ \A column \in ColumnsDone :
            With(validation_results.validation_summary[column], LAMBDA summary :
                /\ Len(labels(df_corrected, column, TRUE))
                        = summary.valid + CorrectedCount(column)
                /\ "valid_after_correction" \in DOMAIN summary
                        => summary.valid_after_correction = summary.valid + summary.corrected)

\* C30: validate_dataframe never modifies the dataset it is given, and the
\* corrected dataset differs from it only in cells (record, field) whose field
\* is in the API-enrichable whitelist, whose value in the input failed the
\* field's predicate and whose new value passes it; so for each field the
\* valid count after correction is the valid count plus the corrected count.
C30_FrameEffect == [][df' = df]_vars /\ []FrameEffect

\* a returned call that corrected a cell of a whitelisted field, left another
\* invalid cell of that field as it was, and left an invalid budget alone
\* although the correction source had a valid budget for the record
C30_Witness ==
    /\ Validated
    /\ \E cell \in ChangedCells : cell[2] = "vote_average"
    /\ \E i \in 1..Len(df) :
        /\ ~safe_validate("vote_average", df[i]["vote_average"])
        /\ df_corrected[i] = df[i]
    /\ \E i \in 1..Len(df) :
        /\ <<i, "vote_average">> \in ChangedCells
        /\ "budget" \in Range(rules_to_use)
        /\ ~safe_validate("budget", df[i]["budget"])
        /\ df[i]["id"].k = "int"
        /\ safe_validate("budget", fetch_func.fetch[df[i]["id"].n].f["budget"])
    /\ validation_results.validation_summary["vote_average"].valid_after_correction
            = validation_results.validation_summary["vote_average"].valid + 1

====
